---- MODULE Spec2Model ----
(***************************************************************************)
(* A model of the protocol core of oidcendpoint: the session / grant /     *)
(* token engine, the authorization endpoint and the redirect-URI           *)
(* validator.  Python strings that the code takes apart (session keys)     *)
(* are sequences of symbols; everything else is an atom.                   *)
(***************************************************************************)
EXTENDS Integers, Sequences, FiniteSets, TLC

\* ------------------------------------------------------------------ bounds
MaxOps == 5
MaxRaceOps == 4
MaxReg == 2
MaxIdLen == 2

\* --------------------------------------------------------------- constants
TokenTypes == {"authorization_code", "access_token", "refresh_token", "id_token"}

NoValue == [sid |-> <<>>, handler |-> "none", rnd |-> 0]

Users == {<<"diana">>}
Clients == {<<"client_1">>, <<"client_2">>}
GrantId(i) == <<ToString(i)>>

\* ------------------------------------------------- session key (composite)
DIVIDER == <<";", ";">>

session_key(user_id, client_id, grant_id) ==
    user_id \o DIVIDER \o client_id \o DIVIDER \o grant_id

StartsWith(s, p) == Len(s) >= Len(p) /\ SubSeq(s, 1, Len(p)) = p

RECURSIVE split(_, _)
split(s, cur) ==
    IF s = <<>> THEN <<cur>>
    ELSE IF StartsWith(s, DIVIDER)
         THEN <<cur>> \o split(SubSeq(s, Len(DIVIDER) + 1, Len(s)), <<>>)
         ELSE split(Tail(s), Append(cur, Head(s)))

unpack_session_key(key) == split(key, <<>>)

\* ------------------------------------------------------------- usage rules
\* The usage rule of a token type: expires_in and max_usage, 0 when the rule
\* does not set them; listed: the rule has a supports_minting list.
EmptyRule ==
    [expires_in |-> 0, max_usage |-> 0, listed |-> FALSE, supports_minting |-> {}]

\* The usage rules the tests configure, the times in units of 300 seconds:
\* 300 for the code, 600 for the access token, 86400 for the refresh token.
RulesDefault ==
    [t \in TokenTypes |->
        CASE t = "authorization_code" ->
                 [expires_in |-> 1, max_usage |-> 1, listed |-> TRUE,
                  supports_minting |-> {"access_token", "refresh_token", "id_token"}]
          [] t = "access_token" ->
                 [expires_in |-> 2, max_usage |-> 0, listed |-> FALSE,
                  supports_minting |-> {}]
          [] t = "refresh_token" ->
                 [expires_in |-> 288, max_usage |-> 0, listed |-> TRUE,
                  supports_minting |-> {"access_token", "refresh_token"}]
          [] OTHER -> EmptyRule]

\* Usage rules that let a code be used twice and an access token once.
RulesReusableCode ==
    [RulesDefault EXCEPT !["authorization_code"].max_usage = 2,
                         !["authorization_code"].expires_in = 0,
                         !["access_token"].max_usage = 1]

\* A Grant made without usage rules has a rule for no token type.
NoRules == [t \in TokenTypes |-> EmptyRule]

\* AuthzHandling.usage_rules(client_id): the usage rules configured for a client.
usage_rules_of(client_id) ==
    IF client_id = <<"client_1">> THEN RulesDefault ELSE RulesReusableCode

\* What a token of a type has when its usage rule does not say: a code is
\* used once and mints access and refresh tokens, a refresh token mints
\* access tokens, any other token is used without limit and mints nothing.
DefaultMaxUsage(token_type) == IF token_type = "authorization_code" THEN 1 ELSE 0

DefaultMinting(token_type) ==
    CASE token_type = "authorization_code" -> {"access_token", "refresh_token"}
      [] token_type = "refresh_token" -> {"access_token"}
      [] OTHER -> {}

\* The usage rule a Token carries: the rule it was minted with, completed
\* with the defaults of its type.
token_max_usage(token_type, usage_rules) ==
    IF usage_rules.max_usage # 0 THEN usage_rules.max_usage
    ELSE DefaultMaxUsage(token_type)

token_minting(token_type, usage_rules) ==
    IF usage_rules.listed THEN usage_rules.supports_minting
    ELSE DefaultMinting(token_type)

\* ------------------------------------------------------------------- state
VARIABLES
    db,       \* the Session Manager's store: path <<user, client, grant>> -> Grant
    now,      \* the clock (utc_time_sans_frac)
    nonce,    \* number of token values produced by the Token Codec so far
    issued,   \* token values put into authorization responses: {<<session_id, value>>}
    served,   \* authorization code values the token endpoint has served
    last,     \* the last operation and its outcome
    ops,      \* number of operations performed so far
    aresp,    \* the last response of the authorization endpoint
    inp,      \* the input of the function under evaluation
    out,      \* its result
    pc,       \* concurrent requests: each worker's position
    held,     \* concurrent requests: each worker's copy of the Grant it works on
    locks,    \* session ids the host has locked for a worker
    guarded,  \* session ids for which the host enforces mutual exclusion
    par_db,   \* pushed authorization requests: request_uri -> request
    client_session,  \* diana's client sessions: client_id -> [revoked]
    logout,   \* the logout in progress: position, queued and sent notifications
    resolved  \* request_uris the authorization endpoint has resolved

engineVars == <<db, now, nonce, issued, served, last, ops, aresp>>

fnVars == <<inp, out>>

raceVars == <<pc, held, locks, guarded>>

sideVars == <<par_db, client_session, logout, resolved>>

vars == <<engineVars, fnVars, raceVars, sideVars>>

\* -------------------------------------------------------------------- Token
handler_call_nosid(session_id, htype, n) == [sid |-> <<>>, handler |-> htype, rnd |-> n]

handler_call(session_id, htype, n) == [sid |-> session_id, handler |-> htype, rnd |-> n]

max_usage_reached(t) == t.max_usage # 0 /\ t.used >= t.max_usage

is_expired(t, when) == t.expires_at # 0 /\ when > t.expires_at

is_active_though_revoked(t) == ~max_usage_reached(t) /\ ~is_expired(t, now)

is_active(t) == ~max_usage_reached(t) /\ ~t.revoked /\ ~is_expired(t, now)

register_usage_noop(t) == t

register_usage(t) == [t EXCEPT !.used = @ + 1]

\* Token.supports_minting: the list the token carries.
supports_minting(t, token_type) == token_type \in t.supports_minting

\* -------------------------------------------------------------------- Grant
NewGrant(rules) == [usage_rules |-> rules, issued_token |-> <<>>, revoked |-> FALSE]

NewToken_based_on_itself(session_id, token_type, htype, base, usage_rules, n) ==
    [type |-> token_type,
     value |-> handler_call(session_id, htype, n),
     based_on |-> handler_call(session_id, htype, n),
     used |-> 0,
     max_usage |-> token_max_usage(token_type, usage_rules),
     supports_minting |-> token_minting(token_type, usage_rules),
     expires_at |-> IF usage_rules.expires_in # 0 THEN now + usage_rules.expires_in ELSE 0,
     revoked |-> FALSE]

NewToken(session_id, token_type, htype, base, usage_rules, n) ==
    [type |-> token_type,
     value |-> handler_call(session_id, htype, n),
     based_on |-> base,
     used |-> 0,
     max_usage |-> token_max_usage(token_type, usage_rules),
     supports_minting |-> token_minting(token_type, usage_rules),
     expires_at |-> IF usage_rules.expires_in # 0 THEN now + usage_rules.expires_in ELSE 0,
     revoked |-> FALSE]

\* No token: what based_on is when a token is minted from nothing.
NoToken ==
    [type |-> "none", value |-> NoValue, based_on |-> NoValue, used |-> 0,
     max_usage |-> 0, supports_minting |-> {}, expires_at |-> 0, revoked |-> FALSE]

minting_allowed_any_base(token_type, based_on) ==
    based_on = NoToken \/ supports_minting(based_on, token_type)

\* based_on is the Token handed to mint_token, of this Grant or of another.
minting_allowed(token_type, based_on) ==
    \/ based_on = NoToken
    \/ /\ is_active(based_on)
       /\ supports_minting(based_on, token_type)

\* Grant.mint_token: the grant with the new token appended, or MintingNotAllowed.
grant_mint_token(grant, session_id, token_type, htype, based_on, usage_rules, n) ==
    IF minting_allowed(token_type, based_on)
    THEN [err |-> "",
          grant |-> [grant EXCEPT !.issued_token =
                        Append(@, NewToken(session_id, token_type, htype,
                                           based_on.value, usage_rules, n))]]
    ELSE [err |-> "MintingNotAllowed", grant |-> grant]

revoke_all_flag_only(grant) == [grant EXCEPT !.revoked = TRUE]

revoke_all(grant) ==
    [grant EXCEPT !.revoked = TRUE,
                  !.issued_token = [i \in DOMAIN @ |-> [@[i] EXCEPT !.revoked = TRUE]]]

\* ---------------------------------------------------------- Session Manager
db_set(store, path, value) ==
    [p \in DOMAIN store \cup {path} |-> IF p = path THEN value ELSE store[p]]

SessionIds == {session_key(p[1], p[2], p[3]) : p \in DOMAIN db}

PathOf(session_id) == unpack_session_key(session_id)

find_token(grant, value) ==
    LET hits == {i \in DOMAIN grant.issued_token : grant.issued_token[i].value = value}
    IN IF hits = {} THEN 0 ELSE CHOOSE i \in hits : TRUE

\* One more operation, within the bound of the exploration.
Step == ops < MaxOps /\ ops' = ops + 1

\* The last operation: its name, the session it was called for, the token
\* type, the position of the token it was about in the list of the Grant of
\* the session bsid (0: none), and the outcome.
Op(name, sid, typ, base, res) ==
    [op |-> name, sid |-> sid, typ |-> typ, base |-> base, res |-> res, bsid |-> sid]

NoResponse ==
    [error |-> "", error_description |-> "", code |-> NoValue,
     access_token |-> NoValue, id_token |-> [made |-> FALSE, code |-> NoValue,
                                             access_token |-> NoValue]]

EngineInit ==
    /\ db = [p \in {} |-> NewGrant(RulesDefault)]
    /\ now = 0
    /\ nonce = 0
    /\ issued = {}
    /\ served = {}
    /\ last = Op("init", <<>>, "", 0, "")
    /\ ops = 0
    /\ aresp = NoResponse

NoInput == [kind |-> "none"]

NoOutput == [kind |-> "none"]

FnIdle == inp = NoInput /\ out = NoOutput

RaceIdle == pc = <<>> /\ held = <<>> /\ locks = {} /\ guarded = {}

NoLogout ==
    [pc |-> "idle", alla |-> FALSE, client_id |-> "", queue |-> <<>>,
     posted |-> <<>>, blu |-> {}, flu |-> {}, returned |-> {}]

SideIdle ==
    par_db = <<>> /\ client_session = <<>> /\ logout = NoLogout /\ resolved = {}

Init == EngineInit /\ FnIdle /\ RaceIdle /\ SideIdle

\* SessionManager.create_session / create_grant: a new Grant under a fresh
\* grant id, with the usage rules the caller hands over (token_usage_rules)
\* or without any.
CreateSession(user_id, client_id, rules) ==
    /\ Step
    /\ LET gid == GrantId(Cardinality(DOMAIN db) + 1)
       IN /\ db' = db_set(db, <<user_id, client_id, gid>>, NewGrant(rules))
          /\ last' = Op("create_session", session_key(user_id, client_id, gid), "", 0, "ok")
    /\ UNCHANGED <<now, nonce, issued, served, aresp, fnVars, raceVars, sideVars>>

\* Grant.mint_token called on the stored Grant (as the tests do), then saved.
\* based_on is a token of that Grant or of another Grant of the store (the
\* token at position b of the session bsid), or nothing (b = 0).
MintToken(session_id, token_type, bsid, b) ==
    /\ Step
    /\ LET grant == db[PathOf(session_id)]
           r == grant_mint_token(grant, session_id, token_type, token_type,
                                 IF b = 0 THEN NoToken
                                 ELSE db[PathOf(bsid)].issued_token[b],
                                 grant.usage_rules[token_type], nonce + 1)
       IN /\ db' = db_set(db, PathOf(session_id), r.grant)
          /\ nonce' = IF r.err = "" THEN nonce + 1 ELSE nonce
          /\ last' = [Op("mint_token", session_id, token_type, b,
                         IF r.err = "" THEN "ok" ELSE r.err) EXCEPT !.bsid = bsid]
    /\ UNCHANGED <<now, issued, served, aresp, fnVars, raceVars, sideVars>>

\* Token.register_usage on a stored token (the token endpoint does it when a
\* token has been exchanged), saved with its Grant.
RegisterUsage(session_id, i) ==
    /\ Step
    /\ i \in DOMAIN db[PathOf(session_id)].issued_token
    /\ db' = [db EXCEPT ![PathOf(session_id)].issued_token[i] = register_usage(@)]
    /\ last' = Op("register_usage", session_id, "", i, "ok")
    /\ UNCHANGED <<now, nonce, issued, served, aresp, fnVars, raceVars, sideVars>>

revoke_one_cascading(grant, i) ==
    [grant EXCEPT !.issued_token =
        [j \in DOMAIN @ |->
            IF j = i \/ @[j].based_on = @[i].value \/ @[i].based_on = @[j].value
            THEN [@[j] EXCEPT !.revoked = TRUE] ELSE @[j]]]

revoke_one(grant, i) == [grant EXCEPT !.issued_token[i].revoked = TRUE]

\* SessionManager.revoke_token(session_id, token_value); UnknownToken if absent.
RevokeToken(session_id, value) ==
    /\ Step
    /\ LET path == PathOf(session_id)
           i == find_token(db[path], value)
       IN IF i = 0
          THEN /\ db' = db
               /\ last' = Op("revoke_token", session_id, "", 0, "UnknownToken")
          ELSE /\ db' = db_set(db, path, revoke_one(db[path], i))
               /\ last' = Op("revoke_token", session_id, "", i, "ok")
    /\ UNCHANGED <<now, nonce, issued, served, aresp, fnVars, raceVars, sideVars>>

\* Revocation of a Grant: the Grant and every Token it owns.
RevokeGrant(session_id) ==
    /\ Step
    /\ db' = db_set(db, PathOf(session_id), revoke_all(db[PathOf(session_id)]))
    /\ last' = Op("revoke_grant", session_id, "", 0, "ok")
    /\ UNCHANGED <<now, nonce, issued, served, aresp, fnVars, raceVars, sideVars>>

Tick ==
    /\ Step
    /\ now' = now + 1
    /\ last' = Op("tick", <<>>, "", 0, "")
    /\ UNCHANGED <<db, nonce, issued, served, aresp, fnVars, raceVars, sideVars>>

\* The sessions of the engine are those of one client, made with its usage
\* rules or with none; the endpoints below serve both clients.
Next ==
    \/ \E u \in Users, c \in {<<"client_1">>} :
          \E rules \in {usage_rules_of(c), NoRules} : CreateSession(u, c, rules)
    \/ \E sid \in SessionIds, t \in TokenTypes :
          \/ MintToken(sid, t, sid, 0)
          \/ \E bsid \in SessionIds :
                \E b \in DOMAIN db[PathOf(bsid)].issued_token : MintToken(sid, t, bsid, b)
    \/ \E sid \in SessionIds :
          \E i \in DOMAIN db[PathOf(sid)].issued_token : RegisterUsage(sid, i)
    \/ \E sid \in SessionIds, sid2 \in SessionIds :
          \E i \in DOMAIN db[PathOf(sid2)].issued_token :
              RevokeToken(sid, db[PathOf(sid2)].issued_token[i].value)
    \/ \E sid \in SessionIds : RevokeGrant(sid)
    \/ Tick

Spec == Init /\ [][Next]_vars

\* --------------------------------------------- authorization endpoint (mint)
persist_nothing(store, session_id, grant) == store

\* session_manager.set(unpack_session_key(session_id), grant)
persist(store, session_id, grant) == db_set(store, unpack_session_key(session_id), grant)

Minted(err, store, grant, token, n) ==
    [err |-> err, store |-> store, grant |-> grant, token |-> token, n |-> n]

\* Authorization.mint_token: the usage rules of the Grant for the type, the
\* Grant's own mint_token with the access token handler, expires_at from
\* expires_in, and the Grant written back under the unpacked session id.
\* `grant` is the caller's Grant object, `based_on` the position of the base
\* token in its list (0: none), `n` the number of values made so far.
authz_mint_token(store, grant, session_id, token_type, based_on, n) ==
    LET usage_rules == grant.usage_rules[token_type]
        r == grant_mint_token(grant, session_id, token_type, "access_token",
                              IF based_on = 0 THEN NoToken
                              ELSE grant.issued_token[based_on],
                              usage_rules, n + 1)
        k == Len(r.grant.issued_token)
        _exp_in == usage_rules.expires_in
        g2 == IF _exp_in # 0
              THEN [r.grant EXCEPT !.issued_token[k].expires_at = now + _exp_in]
              ELSE r.grant
    IN IF r.err # ""
       THEN Minted(r.err, store, grant, 0, n)
       ELSE Minted("", persist(store, session_id, g2), g2, k, n + 1)

ResponseTypes == {{"code"}, {"token"}, {"code", "token"}, {"none"}}

NoIdToken == [made |-> FALSE, code |-> NoValue, access_token |-> NoValue]

\* idtoken.make(sid, code=..., access_token=...): the ID Token carries the
\* values it was given (for c_hash and at_hash).
idtoken_make(code, access_token) ==
    [made |-> TRUE, code |-> code, access_token |-> access_token]

Handled == {"code", "token", "id_token"}

AuthnResult(err, store, n, response, fragment_enc) ==
    [err |-> err, store |-> store, n |-> n, response |-> response,
     fragment_enc |-> fragment_enc]

ErrorResponse(error, description) ==
    [error |-> error, error_description |-> description, code |-> NoValue,
     access_token |-> NoValue, id_token |-> NoIdToken]

based_on_nothing(_code) == 0

\* lines 689-692: the access token is based on the code when one was minted
\* (0 stands for None).
based_on_code(_code) == _code

\* create_authn_response, lines 678-686: the authorization code, when the
\* response type asks for one.
authn_code(store, sid, rtype, n) ==
    IF "code" \in rtype
    THEN authz_mint_token(store, store[PathOf(sid)], sid, "authorization_code", 0, n)
    ELSE Minted("", store, store[PathOf(sid)], 0, n)

\* create_authn_response, lines 688-703: the access token, based on the code
\* `c` just minted when there is one.
authn_token(sid, rtype, c) ==
    IF c.err = "" /\ "token" \in rtype
    THEN authz_mint_token(c.store, c.grant, sid, "access_token",
                          based_on_code(c.token), c.n)
    ELSE Minted(c.err, c.store, c.grant, 0, c.n)

\* authn_result without the not_handled check of lines 730-735.
authn_result_any_type(rtype, idt, c, a) ==
    LET _code == IF c.token # 0 THEN c.grant.issued_token[c.token].value ELSE NoValue
        _access_token == IF a.token # 0 THEN a.grant.issued_token[a.token].value
                         ELSE NoValue
    IN IF a.err # "" THEN AuthnResult(a.err, a.store, a.n, NoResponse, rtype # {"code"})
       ELSE IF "id_token" \in rtype /\ idt # "ok"
       THEN AuthnResult("", a.store, a.n,
                ErrorResponse("invalid_request", "Could not sign/encrypt id_token"),
                rtype # {"code"})
       ELSE AuthnResult("", a.store, a.n,
                [error |-> "", error_description |-> "", code |-> _code,
                 access_token |-> _access_token,
                 id_token |-> IF "id_token" \in rtype
                              THEN idtoken_make(_code, _access_token)
                              ELSE NoIdToken],
                rtype # {"code"})

\* create_authn_response, lines 705-739: the ID Token made with the values
\* already minted, the check that every response type was handled, and the
\* result.  `c` and `a` are the outcomes of the two mints.
authn_result(rtype, idt, c, a) ==
    LET fragment_enc == rtype # {"code"}
        _code == IF c.token # 0 THEN c.grant.issued_token[c.token].value ELSE NoValue
        _access_token == IF a.token # 0 THEN a.grant.issued_token[a.token].value
                         ELSE NoValue
        id_token == IF "id_token" \in rtype
                    THEN idtoken_make(_code, _access_token)
                    ELSE NoIdToken
    IN IF a.err # "" THEN AuthnResult(a.err, a.store, a.n, NoResponse, fragment_enc)
       ELSE IF "id_token" \in rtype /\ idt # "ok"
       THEN AuthnResult("", a.store, a.n,
                ErrorResponse("invalid_request", "Could not sign/encrypt id_token"),
                fragment_enc)
       ELSE IF rtype \ Handled # {}
       THEN AuthnResult("", a.store, a.n,
                ErrorResponse("invalid_request", "unsupported_response_type"),
                fragment_enc)
       ELSE AuthnResult("", a.store, a.n,
                [error |-> "", error_description |-> "", code |-> _code,
                 access_token |-> _access_token, id_token |-> id_token],
                fragment_enc)

\* Authorization.create_authn_response: the code first, then the access token
\* based on the code when there is one, then the ID Token with the values
\* already minted.  An exception of mint_token leaves the function (err) and
\* no response is built; `idt` is what idtoken.make does ("ok" or the
\* exception it raises).  Each step is computed once and its outcome handed
\* to the next.
create_authn_response(store, sid, rtype, idt, n) ==
    IF rtype = {"none"}
    THEN AuthnResult("", store, n, NoResponse, FALSE)
    ELSE CHOOSE r \in UNION {{authn_result(rtype, idt, c, a) :
                                a \in {authn_token(sid, rtype, c)}} :
                                c \in {authn_code(store, sid, rtype, n)}} : TRUE

ResponseValues(r) == {r.code, r.access_token} \ {NoValue}

\* Authorization.authz_part2 for an authenticated session: post_authentication
\* builds the response; any exception becomes a server_error response.
AuthzPart2(sid, rtype) ==
    /\ Step
    /\ \E r \in {create_authn_response(db, sid, rtype, "ok", nonce)} :
         \E resp \in {IF r.err # ""
                      THEN [NoResponse EXCEPT !.error = "server_error"]
                      ELSE r.response} :
          /\ db' = r.store
          /\ nonce' = r.n
          /\ aresp' = resp
          /\ issued' = issued \cup {<<sid, v>> : v \in ResponseValues(resp)}
          /\ last' = Op("authz_part2", sid, "", 0,
                        IF resp.error = "" THEN "ok" ELSE resp.error)
    /\ UNCHANGED <<now, served, fnVars, raceVars, sideVars>>

\* ----------------------------------------------------------- token endpoint
code_usable_if_not_revoked(t) == ~t.revoked

\* The token endpoint's parse_request: the presented code must be active.
code_usable(t) == is_active(t)

\* The token endpoint with grant_type=authorization_code.  parse_request finds
\* the session by the code's value and rejects an unknown or inactive code;
\* process_request mints the access token and, when the code's usage rules
\* allow it, the refresh token, both based on the code, then registers the
\* usage of the code and saves the Grant.
TokenRequest(value) ==
    /\ Step
    /\ LET sid == value.sid
           path == PathOf(sid)
           i == IF path \in DOMAIN db THEN find_token(db[path], value) ELSE 0
       IN IF i = 0 \/ ~code_usable(db[path].issued_token[i])
          THEN /\ last' = Op("token_request", sid, "", i, "error")
               /\ UNCHANGED <<db, nonce, served>>
          ELSE LET grant == db[path]
                   a == authz_mint_token(db, grant, sid, "access_token", i, nonce)
                   r == IF a.err = "" /\ supports_minting(grant.issued_token[i],
                                                          "refresh_token")
                        THEN authz_mint_token(a.store, a.grant, sid, "refresh_token", i, a.n)
                        ELSE a
                   g2 == [r.grant EXCEPT !.issued_token[i] = register_usage(@)]
               IN IF r.err # ""
                  THEN /\ last' = Op("token_request", sid, "", i, r.err)
                       /\ db' = r.store
                       /\ nonce' = r.n
                       /\ served' = served
                  ELSE /\ last' = Op("token_request", sid, "", i, "ok")
                       /\ db' = persist(r.store, sid, g2)
                       /\ nonce' = r.n
                       /\ served' = served \cup {value}
    /\ UNCHANGED <<now, issued, aresp, fnVars, raceVars, sideVars>>

NextEndpoints ==
    \/ \E u \in Users, c \in Clients :
          \E rules \in {usage_rules_of(c), NoRules} : CreateSession(u, c, rules)
    \/ \E sid \in SessionIds, rt \in ResponseTypes : AuthzPart2(sid, rt)
    \/ \E p \in DOMAIN db : \E i \in DOMAIN db[p].issued_token :
          /\ db[p].issued_token[i].type = "authorization_code"
          /\ TokenRequest(db[p].issued_token[i].value)
    \/ \E sid \in SessionIds :
          \E i \in DOMAIN db[PathOf(sid)].issued_token :
              RevokeToken(sid, db[PathOf(sid)].issued_token[i].value)
    \/ Tick

SpecEndpoints == Init /\ [][NextEndpoints]_vars

\* ------------------------------------- concurrent authorization responses
\* Two requests served at the same time.  Each runs create_authn_response for
\* response_type=code: it gets the Grant from the Session Manager, then
\* mint_token adds the code to that Grant object and writes it back.  The
\* host may serialize the requests of a session id (guarded) or not.
Workers == {1, 2}

RacePaths == {<<<<"diana">>, <<"client_1">>, GrantId(1)>>,
              <<<<"diana">>, <<"client_2">>, GrantId(2)>>}

RaceSessions == {session_key(p[1], p[2], p[3]) : p \in RacePaths}

NoHeld == [sid |-> <<>>, grant |-> NewGrant(RulesDefault)]

InitRace ==
    /\ db = [p \in RacePaths |-> NewGrant(usage_rules_of(p[2]))]
    /\ now = 0
    /\ nonce = 0
    /\ issued = {}
    /\ served = {}
    /\ last = Op("init", <<>>, "", 0, "")
    /\ ops = 0
    /\ aresp = NoResponse
    /\ FnIdle
    /\ pc = [w \in Workers |-> "idle"]
    /\ held = [w \in Workers |-> NoHeld]
    /\ locks = {}
    /\ guarded \in SUBSET RaceSessions
    /\ SideIdle

host_admits_always(sid) == TRUE

\* The host's per-session-id mutual exclusion: a request for a guarded
\* session id starts only while no other request for it is being served.
host_admits(sid) == sid \in guarded => sid \notin locks

\* create_authn_response, line 663: _sinfo = get_session_info(sid, grant=True).
ReadGrant(w, sid) ==
    /\ ops < MaxRaceOps
    /\ pc[w] = "idle"
    /\ host_admits(sid)
    /\ ops' = ops + 1
    /\ pc' = [pc EXCEPT ![w] = "read"]
    /\ held' = [held EXCEPT ![w] = [sid |-> sid, grant |-> db[PathOf(sid)]]]
    /\ locks' = IF sid \in guarded THEN locks \cup {sid} ELSE locks
    /\ last' = Op("read_grant", sid, "", w, "ok")
    /\ UNCHANGED <<db, now, nonce, issued, served, aresp, fnVars, guarded, sideVars>>

\* create_authn_response, lines 678-684: mint_token on the Grant object the
\* request holds, the value put into the response; the request is done.
MintAndSet(w) ==
    /\ pc[w] = "read"
    /\ LET sid == held[w].sid
           r == authz_mint_token(db, held[w].grant, sid, "authorization_code", 0, nonce)
       IN /\ db' = r.store
          /\ nonce' = r.n
          /\ issued' = issued \cup {<<sid, r.grant.issued_token[r.token].value>>}
          /\ locks' = locks \ {sid}
          /\ last' = Op("mint_and_set", sid, "authorization_code", w, "ok")
    /\ pc' = [pc EXCEPT ![w] = "idle"]
    /\ held' = [held EXCEPT ![w] = NoHeld]
    /\ UNCHANGED <<now, served, ops, aresp, fnVars, guarded, sideVars>>

NextRace ==
    \/ \E w \in Workers, sid \in RaceSessions : ReadGrant(w, sid)
    \/ \E w \in Workers : MintAndSet(w)

SpecRace == InitRace /\ [][NextRace]_vars

\* ------------------------------------------------------------ session keys
\* session_key and unpack_session_key applied to identifiers drawn from
\* non-empty strings; an identifier may hold the character of the divider.
IdChars == {"a", "b", ";"}

RECURSIVE Strings(_)
Strings(n) ==
    IF n = 0 THEN {<<>>}
    ELSE Strings(n - 1) \cup {Append(t, c) : t \in Strings(n - 1), c \in IdChars}

Ids == Strings(MaxIdLen) \ {<<>>}

InitKey ==
    /\ EngineInit
    /\ RaceIdle
    /\ SideIdle
    /\ inp \in [kind : {"ids"}, user_id : Ids, client_id : Ids, grant_id : Ids]
    /\ out = NoOutput

MakeKey ==
    /\ out.kind = "none"
    /\ out' = [kind |-> "key",
               key |-> session_key(inp.user_id, inp.client_id, inp.grant_id)]
    /\ UNCHANGED <<inp, engineVars, raceVars, sideVars>>

UnpackKey ==
    /\ out.kind = "key"
    /\ out' = [kind |-> "unpacked", key |-> out.key,
               unpacked |-> unpack_session_key(out.key)]
    /\ UNCHANGED <<inp, engineVars, raceVars, sideVars>>

NextKey == MakeKey \/ UnpackKey

SpecKey == InitKey /\ [][NextKey]_vars

\* ------------------------------------------------- redirect URI validation
\* A URI after unquote/urlparse/split_uri: its base (scheme, host, path), its
\* query as parse_qs gives it (key -> values, no key when there is no query)
\* and its fragment ("" when it has none).
Bases == {"https://cb", "https://other"}

QueryKeys == {"foo", "bar"}

QueryVals == {"1", "2"}

Queries == UNION {[D -> (SUBSET QueryVals) \ {{}}] : D \in SUBSET QueryKeys}

NoQuery == [k \in {} |-> {}]

FooIs1 == [k \in {"foo"} |-> {"1"}]

FooIs1Bar2 == [k \in {"foo", "bar"} |-> IF k = "foo" THEN {"1"} ELSE {"2"}]

FooIs12 == [k \in {"foo"} |-> {"1", "2"}]

Uri(base, query, fragment) == [base |-> base, query |-> query, fragment |-> fragment]

RequestUris == {Uri(b, q, f) : b \in Bases, q \in Queries, f \in {"", "frag"}}

\* What a client registers: (base, query) pairs.
RegisteredUris == {[base |-> b, query |-> q] :
                      b \in Bases, q \in {NoQuery, FooIs1, FooIs1Bar2, FooIs12}}

RECURSIVE SeqsUpTo(_, _)
SeqsUpTo(S, n) ==
    IF n = 0 THEN {<<>>}
    ELSE SeqsUpTo(S, n - 1) \cup
         {Append(t, x) : t \in {u \in SeqsUpTo(S, n - 1) : Len(u) = n - 1}, x \in S}

RequestClients == {"client_1", "unknown", ""}

cdb_of(registered) == [c \in {"client_1"} |-> [redirect_uris |-> registered]]

Falsy(query) == DOMAIN query = {}

\* lines 139-147 and 155-162: a key or a value of `part` that `whole` lacks.
not_in_query(part, whole) ==
    \E key \in DOMAIN part :
        \/ key \notin DOMAIN whole
        \/ \E val \in part[key] : val \notin whole[key]

extra_in_query_ignored(query, rquery) == FALSE

\* lines 135-147: every registered query component must exist in the uri.
missing_in_query(query, rquery) ==
    ~Falsy(rquery) /\ (Falsy(query) \/ not_in_query(rquery, query))

\* lines 151-162: every query component in the uri must be registered.
extra_in_query(query, rquery) ==
    ~Falsy(query) /\ (Falsy(rquery) \/ not_in_query(query, rquery))

\* lines 131-166: the loop over the registered (regbase, rquery); the first
\* entry with the request's base decides.
RECURSIVE match_registered(_, _, _)
match_registered(redirect_uris, base, query) ==
    IF redirect_uris = <<>> THEN "RedirectURIError"
    ELSE IF base = Head(redirect_uris).base
         THEN IF missing_in_query(query, Head(redirect_uris).query) THEN "ValueError"
              ELSE IF extra_in_query(query, Head(redirect_uris).query) THEN "ValueError"
              ELSE "ok"
         ELSE match_registered(Tail(redirect_uris), base, query)

\* verify_uri: "ok" when it returns, else the exception it raises.
verify_uri(cdb, client_id, uri) ==
    IF client_id = "" THEN "UnknownClient"
    ELSE IF uri.fragment # "" THEN "URIError"
    ELSE IF client_id \notin DOMAIN cdb THEN "KeyError"
    ELSE IF cdb[client_id].redirect_uris = <<>> THEN "ValueError"
    ELSE match_registered(cdb[client_id].redirect_uris, uri.base, uri.query)

InitUri ==
    /\ EngineInit
    /\ RaceIdle
    /\ SideIdle
    /\ inp \in [kind : {"uri"}, client_id : RequestClients, uri : RequestUris,
                 registered : SeqsUpTo(RegisteredUris, MaxReg)]
    /\ out = NoOutput

VerifyUri ==
    /\ inp.kind = "uri"
    /\ out.kind = "none"
    /\ out' = [kind |-> "verified",
               result |-> verify_uri(cdb_of(inp.registered), inp.client_id, inp.uri)]
    /\ UNCHANGED <<inp, engineVars, raceVars, sideVars>>

NextUri == VerifyUri

SpecUri == InitUri /\ [][NextUri]_vars

\* ----------------------------------------- parsing an authorization request
Raised(exception) == [kind |-> "raised", error |-> "", exception |-> exception]

Returned(uri) == [err |-> "", uri |-> uri]

NoUri == Uri("", NoQuery, "")

join_query_base_only(base, query) == Uri(base, NoQuery, "")

\* join_query: the registered base with the registered query.
join_query(base, query) == Uri(base, query, "")

\* get_uri: the verified redirect_uri of the request or, when the request
\* has none, the only one the client registered; err names the exception.
get_uri(cdb, request) ==
    IF request.has_redirect_uri
    THEN LET v == verify_uri(cdb, request.client_id, request.redirect_uri)
         IN IF v = "ok" THEN Returned(request.redirect_uri)
            ELSE [err |-> v, uri |-> NoUri]
    ELSE IF request.client_id \in DOMAIN cdb
         THEN LET _specs == cdb[request.client_id].redirect_uris
              IN IF _specs = <<>> THEN [err |-> "ParameterError", uri |-> NoUri]
                 ELSE IF Len(_specs) > 1 THEN [err |-> "ParameterError", uri |-> NoUri]
                 ELSE Returned(join_query(_specs[1].base, _specs[1].query))
         ELSE Returned(NoUri)

verify_response_type(request, response_types) ==
    LET _registered == IF response_types = {} THEN {{"code"}} ELSE response_types
    IN request.response_type \in _registered

error_cls(error, description) ==
    [kind |-> "error", error |-> error, error_description |-> description]

Caught == {"RedirectURIError", "ParameterError", "UnknownClient"}

\* Authorization._post_parse_request: an error response, the request with
\* its redirect_uri, or the exception that leaves the method.
post_parse_request(request) ==
    LET cdb == cdb_of(request.registered)
    IN IF request.client_id \notin DOMAIN cdb
       THEN error_cls("unauthorized_client", "unknown client")
       ELSE IF ~verify_response_type(request, request.response_types)
       THEN error_cls("invalid_request", "Trying to use unregistered response_type")
       ELSE LET r == get_uri(cdb, request)
            IN IF r.err = "" THEN [kind |-> "request", redirect_uri |-> r.uri]
               ELSE IF r.err \in Caught THEN error_cls("invalid_request", r.err)
               ELSE Raised(r.err)

scopes_supported == {"openid", "email"}

\* check_unknown_scopes_policy: the exception that leaves it, "" when it
\* returns.  For a scope the policy denies, the warning is formatted with
\* cinfo['client_id'] (line 260) before UnAuthorizedClientScope is raised
\* (line 262): a client record without that key ends it as a KeyError.
check_unknown_scopes_policy(request) ==
    LET client_allowed_scopes == IF request.allowed_scopes # {}
                                 THEN request.allowed_scopes ELSE scopes_supported
    IN IF \E scope \in request.scope :
             request.deny_unknown_scopes /\ scope \notin client_allowed_scopes
       THEN IF request.cinfo_has_client_id THEN "UnAuthorizedClientScope"
            ELSE "KeyError"
       ELSE ""

ParseUris == {Uri(b, q, f) : b \in Bases, q \in {NoQuery, FooIs1, FooIs1Bar2},
                             f \in {"", "frag"}}

ParseRegistered ==
    SeqsUpTo({[base |-> "https://cb", query |-> NoQuery],
              [base |-> "https://cb", query |-> FooIs1],
              [base |-> "https://other", query |-> FooIs1]}, MaxReg)

AuthzRequests ==
    [kind : {"authz"},
     client_id : {"client_1", "unknown"},
     response_type : {{"code"}, {"token"}},
     response_types : {{}, {{"code"}, {"code", "token"}}},
     has_redirect_uri : {TRUE},
     redirect_uri : ParseUris,
     registered : ParseRegistered,
     scope : {{"openid"}, {"openid", "email"}, {"openid", "secret"}},
     allowed_scopes : {{}, {"openid"}},
     cinfo_has_client_id : BOOLEAN,
     deny_unknown_scopes : BOOLEAN]
    \cup
    [kind : {"authz"},
     client_id : {"client_1", "unknown"},
     response_type : {{"code"}, {"token"}},
     response_types : {{}, {{"code"}, {"code", "token"}}},
     has_redirect_uri : {FALSE},
     redirect_uri : {NoUri},
     registered : ParseRegistered,
     scope : {{"openid"}, {"openid", "email"}, {"openid", "secret"}},
     allowed_scopes : {{}, {"openid"}},
     cinfo_has_client_id : BOOLEAN,
     deny_unknown_scopes : BOOLEAN]

\* ------------------------------------------- the authorization response
\* response_args: the fields create_authn_response sets and those authz_part2
\* adds ("" for a field that is not set).
ResponseArgs(resp, session_state, iss, client_id) ==
    [error |-> resp.error, error_description |-> resp.error_description,
     code |-> resp.code, access_token |-> resp.access_token,
     id_token |-> resp.id_token, session_state |-> session_state,
     iss |-> iss, client_id |-> client_id]

NoArgs == ResponseArgs(NoResponse, "", "", "")

NoMsg == [made |-> FALSE, inputs |-> NoArgs]

\* FORM_POST with inputs(response_args.to_dict()): one hidden input for every
\* field response_args holds when the document is written.
form_post_msg(args) == [made |-> TRUE, inputs |-> args]

\* resp_info, the dictionary post_authentication and authz_part2 return.
RespInfo(args, fragment_enc, session_id, return_uri, msg, cookie) ==
    [response_args |-> args, fragment_enc |-> fragment_enc,
     session_id |-> session_id, return_uri |-> return_uri,
     response_msg |-> msg, cookie |-> cookie]

EmptyInfo == RespInfo(NoArgs, "absent", <<>>, "absent", NoMsg, FALSE)

\* Authorization.error_response
error_response(response_info, error, description) ==
    [response_info EXCEPT
        !.response_args = ResponseArgs(ErrorResponse(error, description), "", "", "")]

\* response_mode that takes any mode as it comes.
response_mode_unchecked(resp_mode, info) ==
    IF resp_mode = "form_post"
    THEN [err |-> "", info |-> [info EXCEPT !.response_msg = form_post_msg(info.response_args)]]
    ELSE [err |-> "", info |-> info]

\* Authorization.response_mode: the updated resp_info, or err = "InvalidRequest".
response_mode(resp_mode, info) ==
    IF resp_mode = "form_post"
    THEN [err |-> "", info |-> [info EXCEPT !.response_msg = form_post_msg(info.response_args)]]
    ELSE IF resp_mode = "fragment"
    THEN IF info.fragment_enc = "False" THEN [err |-> "InvalidRequest", info |-> info]
         ELSE [err |-> "", info |-> [info EXCEPT !.fragment_enc = "True"]]
    ELSE IF resp_mode = "query"
    THEN IF info.fragment_enc = "True" THEN [err |-> "InvalidRequest", info |-> info]
         ELSE [err |-> "", info |-> info]
    ELSE [err |-> "InvalidRequest", info |-> info]

PostAuthn(exc, info, store, n) == [exc |-> exc, info |-> info, store |-> store, n |-> n]

\* post_authentication, lines 776-819, with `r` the outcome of
\* create_authn_response: the redirect URI, the state, the response mode and
\* the cookie.
authn_info(request, session_id, r) ==
    LET info1 == RespInfo(ResponseArgs(r.response, "", "", ""),
                          IF r.fragment_enc THEN "True" ELSE "False",
                          session_id, "absent", NoMsg, FALSE)
        u == get_uri(cdb_of(request.registered), request)
        info2 == [info1 EXCEPT !.return_uri = "set"]
        m == IF request.response_mode # ""
             THEN response_mode(request.response_mode, info2)
             ELSE [err |-> "", info |-> info2]
    IN IF r.err # "" THEN PostAuthn(r.err, EmptyInfo, r.store, r.n)
       ELSE IF u.err \in {"RedirectURIError", "ParameterError"}
       THEN PostAuthn("", error_response(info1, "invalid_request", u.err), r.store, r.n)
       ELSE IF u.err # "" THEN PostAuthn(u.err, EmptyInfo, r.store, r.n)
       ELSE IF ~request.has_state THEN PostAuthn("KeyError", EmptyInfo, r.store, r.n)
       ELSE IF m.err # ""
       THEN PostAuthn("", error_response(info2, "invalid_request", m.err), r.store, r.n)
       ELSE PostAuthn("", [m.info EXCEPT !.cookie = TRUE], r.store, r.n)

\* Authorization.post_authentication.  `request` holds the request and what the
\* parts that are not in this module do for it: authz ("ok" or the exception
\* of endpoint_context.authz), set_ok (session_manager.set), idt
\* (idtoken.make).  exc names an exception that leaves the method.
post_authentication(request, store, session_id, n) ==
    IF request.authz # "ok"
    THEN PostAuthn("", error_response(EmptyInfo, "access_denied", request.authz), store, n)
    ELSE IF ~request.set_ok
    THEN PostAuthn("", error_response(EmptyInfo, "server_error", "set"), store, n)
    ELSE CHOOSE p \in {authn_info(request, session_id, r) :
                         r \in {create_authn_response(store, session_id,
                                    request.response_type, request.idt, n)}} : TRUE

Issuer == "https://op"

mix_up_skipped(info, request) == info

\* authz_part2, lines 904-906: iss and client_id put into response_args.
mix_up(info, request) ==
    [info EXCEPT !.response_args.iss = Issuer,
                 !.response_args.client_id = request.client_id]

AuthzResult(kind, exception, info, store, n) ==
    [kind |-> kind, exception |-> exception, info |-> info, store |-> store, n |-> n]

\* authz_part2, lines 846-908, with `p` what post_authentication gave (or
\* the exception caught at line 846): the session state and the issuer.
\* check_session_iframe: whether provider_info holds it; authn_event: what
\* get_authentication_event gives ("valid", "invalid" or "KeyError");
\* create_cookie: whether the cookie dealer has create_cookie.  With a
\* session-management cookie made, resp_info gets it: appended to the cookie
\* of post_authentication, or as its cookie when there is none (lines 893-900).
authz_info(request, p) ==
    IF p.exc # ""
    THEN AuthzResult("returned", "",
             error_response(EmptyInfo, "server_error", p.exc), p.store, p.n)
    ELSE IF request.check_session_iframe
    THEN IF request.authn_event # "valid"
         THEN AuthzResult("returned", "",
                  error_response(EmptyInfo, "server_error", request.authn_event),
                  p.store, p.n)
         ELSE IF p.info.return_uri = "absent"
         THEN AuthzResult("raised", "KeyError", EmptyInfo, p.store, p.n)
         ELSE AuthzResult("returned", "",
                  mix_up([p.info EXCEPT !.response_args.session_state = "set",
                                        !.cookie = @ \/ request.create_cookie],
                         request),
                  p.store, p.n)
    ELSE AuthzResult("returned", "", mix_up(p.info, request), p.store, p.n)

\* Authorization.authz_part2: what it returns, or the exception that leaves it.
authz_part2(request, store, session_id, n) ==
    CHOOSE r \in {authz_info(request, p) :
                    p \in {post_authentication(request, store, session_id, n)}} : TRUE

\* Authorization requests of client_1 for the session of diana, after the
\* authentication.
AuthnResponseTypes ==
    {{"code"}, {"token"}, {"code", "token"}, {"id_token"}, {"code", "id_token"},
     {"id_token", "token"}, {"code", "id_token", "token"}, {"none"}, {"code", "foo"},
     {"id_token", "foo"}, {"code", "none"}}

AuthnRedirects ==
    {[has_redirect_uri |-> TRUE, redirect_uri |-> Uri("https://cb", FooIs1, "")],
     [has_redirect_uri |-> TRUE, redirect_uri |-> Uri("https://other", FooIs1, "")],
     [has_redirect_uri |-> TRUE, redirect_uri |-> Uri("https://cb", FooIs1Bar2, "")],
     [has_redirect_uri |-> FALSE, redirect_uri |-> NoUri]}

AuthnRequests ==
    {[kind |-> "authn", client_id |-> "client_1",
      registered |-> <<[base |-> "https://cb", query |-> FooIs1]>>,
      response_type |-> rt, response_mode |-> rm, has_state |-> st,
      has_redirect_uri |-> u.has_redirect_uri, redirect_uri |-> u.redirect_uri,
      authz |-> az, set_ok |-> so, idt |-> idt,
      check_session_iframe |-> csi, authn_event |-> ev, create_cookie |-> cc] :
        rt \in AuthnResponseTypes,
        rm \in {"", "query", "fragment", "form_post", "bogus"},
        st \in BOOLEAN, u \in AuthnRedirects, az \in {"ok", "ToOld"},
        so \in BOOLEAN, idt \in {"ok", "NoSuitableSigningKeys"},
        csi \in BOOLEAN, ev \in {"valid", "invalid", "KeyError"},
        cc \in BOOLEAN}

AuthnPath == <<<<"diana">>, <<"client_1">>, GrantId(1)>>

AuthnSession == session_key(AuthnPath[1], AuthnPath[2], AuthnPath[3])

\* The usage rules the Grant of the session can have: those of a client
\* (create_session with token_usage_rules) or none (create_grant, or
\* create_session without token_usage_rules).
GrantRules == {RulesDefault, RulesReusableCode, NoRules}

\* The store with the Grant of the session, no token minted yet.
FreshStore(rules) == [p \in {AuthnPath} |-> NewGrant(rules)]

\* The session is new, or has already answered one response_type=code request.
InitStore(rules) ==
    /\ \/ db = FreshStore(rules) /\ nonce = 0
       \/ LET r == create_authn_response(FreshStore(rules), AuthnSession, {"code"}, "ok", 0)
          IN db = r.store /\ nonce = r.n

InitAuthn ==
    /\ now = 0
    /\ \E rules \in GrantRules : InitStore(rules)
    /\ issued = {}
    /\ served = {}
    /\ last = Op("init", <<>>, "", 0, "")
    /\ ops = 0
    /\ aresp = NoResponse
    /\ RaceIdle
    /\ SideIdle
    /\ inp \in AuthnRequests
    /\ out = NoOutput

AuthzResponse ==
    /\ inp.kind = "authn"
    /\ out.kind = "none"
    /\ \E r \in {authz_part2(inp, db, AuthnSession, nonce)} :
          /\ db' = r.store
          /\ nonce' = r.n
          /\ out' = [kind |-> "authz_part2", result |-> r.kind,
                     exception |-> r.exception, info |-> r.info,
                     before |-> Len(db[AuthnPath].issued_token)]
    /\ UNCHANGED <<now, issued, served, last, ops, aresp, inp, raceVars, sideVars>>

NextAuthn == AuthzResponse

SpecAuthn == InitAuthn /\ [][NextAuthn]_vars

\* create_authn_response called on its own, for every response type, with an
\* ID Token that can be made or not, for a Grant of any usage rules.
ResponseRequests ==
    {[kind |-> "response", response_type |-> rt, idt |-> idt] :
        rt \in AuthnResponseTypes, idt \in {"ok", "NoSuitableSigningKeys"}}

\* Usage rules that let a code mint nothing.
RulesNoMinting ==
    [RulesDefault EXCEPT !["authorization_code"].supports_minting = {}]

InitResponse ==
    /\ now = 0
    /\ \E rules \in GrantRules \cup {RulesNoMinting} : InitStore(rules)
    /\ issued = {}
    /\ served = {}
    /\ last = Op("init", <<>>, "", 0, "")
    /\ ops = 0
    /\ aresp = NoResponse
    /\ RaceIdle
    /\ SideIdle
    /\ inp \in ResponseRequests
    /\ out = NoOutput

\* What create_authn_response returns (exception "" and the response with
\* fragment_enc) or the exception that leaves it, and the store it leaves.
CreateAuthnResponse ==
    /\ inp.kind = "response"
    /\ out.kind = "none"
    /\ \E r \in {create_authn_response(db, AuthnSession, inp.response_type, inp.idt,
                                        nonce)} :
          /\ db' = r.store
          /\ nonce' = r.n
          /\ out' = [kind |-> "authn_response", exception |-> r.err,
                     response_args |-> r.response, fragment_enc |-> r.fragment_enc,
                     before |-> Len(db[AuthnPath].issued_token)]
    /\ UNCHANGED <<now, issued, served, last, ops, aresp, inp, raceVars, sideVars>>

NextResponse == CreateAuthnResponse

SpecResponse == InitResponse /\ [][NextResponse]_vars

\* ------------------------------------------- pushed authorization requests
\* "urn:uuid:" followed by a uuid4; the k-th operation of the run makes the
\* uuid k, a value no earlier operation made.
Urn(k) == [scheme |-> "urn:uuid:", uuid |-> k]

PushedRequests ==
    {[kind |-> "par", client_id |-> "client_1", redirect_uri |-> "https://cb", state |-> st] :
        st \in {"s1", "s2"}}

par_db_keep(store, _request_uri) == store

\* del endpoint_context.par_db[_request_uri]
par_db_del(store, _request_uri) ==
    [u \in DOMAIN store \ {_request_uri} |-> store[u]]

\* PushedAuthorization.process_request
PushRequest(request) ==
    /\ Step
    /\ LET _urn == Urn(ops + 1)
       IN /\ par_db' = [u \in DOMAIN par_db \cup {_urn} |->
                          IF u = _urn THEN request ELSE par_db[u]]
          /\ out' = [kind |-> "pushed", request_uri |-> _urn,
                     return_uri |-> request.redirect_uri]
          /\ last' = Op("push", <<>>, "", _urn.uuid, "ok")
    /\ UNCHANGED <<db, now, nonce, issued, served, aresp, inp, raceVars,
                   client_session, logout, resolved>>

\* Authorization._do_request_uri for a request_uri that is a UUID urn, with
\* the pushed authorization endpoint configured.
DoRequestUri(k) ==
    /\ Step
    /\ LET _request_uri == Urn(k)
       IN IF _request_uri \in DOMAIN par_db
          THEN /\ par_db' = par_db_del(par_db, _request_uri)
               /\ out' = [kind |-> "request", request |-> par_db[_request_uri]]
               /\ resolved' = resolved \cup {_request_uri}
               /\ last' = Op("do_request_uri", <<>>, "", k, "ok")
          ELSE /\ out' = [kind |-> "raised", exception |-> "ValueError"]
               /\ last' = Op("do_request_uri", <<>>, "", k, "ValueError")
               /\ UNCHANGED <<par_db, resolved>>
    /\ UNCHANGED <<db, now, nonce, issued, served, aresp, inp, raceVars,
                   client_session, logout>>

NextPar ==
    \/ \E request \in PushedRequests : PushRequest(request)
    \/ \E k \in 1..MaxOps : DoRequestUri(k)

SpecPar == Init /\ [][NextPar]_vars

\* ----------------------------- concurrent resolutions of a pushed request
\* Two authorization requests served at the same time, each presenting a
\* request_uri.  _do_request_uri looks the urn up (line 342) and, as a later
\* step, deletes it (line 344); the steps of the two requests interleave.
\* par_db is a dict: del of a key that is no longer there raises KeyError.
NoPushed == [kind |-> "par", client_id |-> "", redirect_uri |-> "", state |-> ""]

ParRaceUrns == {Urn(1), Urn(2)}

NoLookup == [uri |-> Urn(0), req |-> NoPushed, result |-> ""]

InitParRace ==
    /\ EngineInit
    /\ FnIdle
    /\ pc = [w \in Workers |-> "idle"]
    /\ held = [w \in Workers |-> NoLookup]
    /\ locks = {}
    /\ guarded = {}
    /\ par_db \in UNION {[D -> PushedRequests] : D \in SUBSET ParRaceUrns}
    /\ client_session = <<>>
    /\ logout = NoLogout
    /\ resolved = {}

\* lines 336-342: _req = endpoint_context.par_db.get(_request_uri)
ParLookup(w, _request_uri) ==
    /\ pc[w] = "idle"
    /\ pc' = [pc EXCEPT ![w] = "looked_up"]
    /\ held' = [held EXCEPT ![w] =
                  [uri |-> _request_uri,
                   req |-> IF _request_uri \in DOMAIN par_db
                           THEN par_db[_request_uri] ELSE NoPushed,
                   result |-> ""]]
    /\ UNCHANGED <<engineVars, fnVars, locks, guarded, sideVars>>

\* lines 343-347: the stored request is deleted and returned, or ValueError
\* when the lookup gave nothing.
ParResolve(w) ==
    /\ pc[w] = "looked_up"
    /\ pc' = [pc EXCEPT ![w] = "done"]
    /\ IF held[w].req = NoPushed
       THEN /\ held' = [held EXCEPT ![w].result = "ValueError"]
            /\ UNCHANGED <<par_db, resolved>>
       ELSE IF held[w].uri \in DOMAIN par_db
       THEN /\ par_db' = par_db_del(par_db, held[w].uri)
            /\ resolved' = resolved \cup {held[w].uri}
            /\ held' = [held EXCEPT ![w].result = "resolved"]
       ELSE /\ held' = [held EXCEPT ![w].result = "KeyError"]
            /\ UNCHANGED <<par_db, resolved>>
    /\ UNCHANGED <<engineVars, fnVars, locks, guarded, client_session, logout>>

NextParRace ==
    \/ \E w \in Workers, u \in ParRaceUrns : ParLookup(w, u)
    \/ \E w \in Workers : ParResolve(w)

SpecParRace == InitParRace /\ [][NextParRace]_vars

\* ------------------------------------------------------------------ logout
\* diana's client sessions, in the order of the user session's subordinate
\* list.  cdb[client] is the set of logout URIs the client registered.
LogoutClients == <<"client_1", "client_2", "client_3">>

LogoutUris == {"backchannel_logout_uri", "frontchannel_logout_uri"}

PostOutcomes == {"200", "400", "504", "ConnectionError"}

RECURSIVE SelectSeq2(_, _, _)
SelectSeq2(seq, cdb, key) ==
    IF seq = <<>> THEN <<>>
    ELSE (IF key \in cdb[Head(seq)] THEN <<Head(seq)>> ELSE <<>>)
         \o SelectSeq2(Tail(seq), cdb, key)

Range(seq) == {seq[i] : i \in DOMAIN seq}

uses_front_also(cinfo) == "frontchannel_logout_uri" \in cinfo

\* the elif of logout_all_clients and logout_from_client
uses_front(cinfo) ==
    "backchannel_logout_uri" \notin cinfo /\ "frontchannel_logout_uri" \in cinfo

clean_sessions_none(sessions, usids) == sessions

\* Session.clean_sessions: revoke_client_session for every sid of the list.
clean_sessions(sessions, usids) ==
    [c \in DOMAIN sessions |->
        IF c \in usids THEN [sessions[c] EXCEPT !.revoked = TRUE] ELSE sessions[c]]

LogoutResult(blu, flu, rel) == [blu |-> blu, flu |-> flu, rel |-> rel]

\* Session.logout_all_clients: the clients to notify by back channel (in the
\* order of the dictionary), those by front channel, and _rel_sid.
logout_all_clients(cdb, subordinate) ==
    LET bc == SelectSeq2(subordinate, cdb, "backchannel_logout_uri")
        fc == {c \in Range(subordinate) : uses_front(cdb[c])}
    IN LogoutResult(bc, fc, Range(bc) \cup fc)

\* Session.logout_from_client
logout_from_client(cdb, _client_id) ==
    LogoutResult(IF "backchannel_logout_uri" \in cdb[_client_id]
                 THEN <<_client_id>> ELSE <<>>,
                 IF uses_front(cdb[_client_id]) THEN {_client_id} ELSE {},
                 {_client_id})

LogoutConfigs ==
    [kind : {"logout"}, cdb : [Range(LogoutClients) -> SUBSET LogoutUris]]

InitLogout ==
    /\ EngineInit
    /\ RaceIdle
    /\ inp \in LogoutConfigs
    /\ out = NoOutput
    /\ par_db = <<>>
    /\ resolved = {}
    /\ logout = NoLogout
    /\ \E k \in 2..Len(LogoutClients) :
          client_session = [c \in Range(SubSeq(LogoutClients, 1, k)) |-> [revoked |-> FALSE]]

Subordinate == SelectSeq(LogoutClients, LAMBDA c : c \in DOMAIN client_session)

\* Session.do_verified_logout up to the first POST: logout_all_clients or
\* logout_from_client has returned.
StartLogout(_client_id, alla) ==
    /\ logout.pc = "idle"
    /\ _client_id \in DOMAIN client_session
    /\ LET _res == IF alla THEN logout_all_clients(inp.cdb, Subordinate)
                   ELSE logout_from_client(inp.cdb, _client_id)
       IN /\ client_session' = clean_sessions(client_session, _res.rel)
          /\ logout' = [pc |-> "posting", alla |-> alla, client_id |-> _client_id,
                        queue |-> _res.blu, posted |-> <<>>,
                        blu |-> Range(_res.blu), flu |-> _res.flu, returned |-> {}]
    /\ UNCHANGED <<engineVars, fnVars, raceVars, par_db, resolved>>

\* Session.do_verified_logout, one turn of the loop: httpc.post to the next
\* client; `outcome` is the status code of the answer, or the exception of
\* httpc.post, which nothing in the loop catches.
PostLogout(outcome) ==
    /\ logout.pc = "posting"
    /\ logout.queue # <<>>
    /\ logout' = IF outcome = "ConnectionError"
                 THEN [logout EXCEPT !.pc = "raised",
                                     !.posted = Append(@, <<Head(logout.queue), outcome>>)]
                 ELSE [logout EXCEPT !.queue = Tail(@),
                                     !.posted = Append(@, <<Head(logout.queue), outcome>>)]
    /\ UNCHANGED <<engineVars, fnVars, raceVars, par_db, resolved, client_session>>

\* Session.do_verified_logout, the return: the front-channel iframes.
ReturnLogout ==
    /\ logout.pc = "posting"
    /\ logout.queue = <<>>
    /\ logout' = [logout EXCEPT !.pc = "done", !.returned = logout.flu]
    /\ UNCHANGED <<engineVars, fnVars, raceVars, par_db, resolved, client_session>>

NextLogout ==
    \/ \E c \in Range(LogoutClients), alla \in BOOLEAN : StartLogout(c, alla)
    \/ \E outcome \in PostOutcomes : PostLogout(outcome)
    \/ ReturnLogout

SpecLogout == InitLogout /\ [][NextLogout]_vars

\* ------------------------------------------------------------- setup_auth
\* What setup_auth meets: whether an authentication method was picked, what
\* authenticated_as gives for the cookie, whether identity["uid"] is the
\* base64 JSON identity, whether the identity names a session (sid) and of
\* which client, the state of that session's Grant and AuthenticationEvent,
\* whether the request is the Grant's authorization request, req_user and
\* whether prompt holds "none".  The request's client_id is client_1.
SetupInputs ==
    {a \in [kind : {"setup"},
            method_found : BOOLEAN,
            authenticated_as : {"NoSuchAuthentication", "TamperAllert", "ToOld",
                                "UnknownToken", "None", "identity"},
            uid_b64 : BOOLEAN,
            has_sid : BOOLEAN,
            sid_client : {"client_1", "client_2"},
            grant_state : {"active", "inactive", "revoked"},
            same_request : BOOLEAN,
            event_valid : BOOLEAN,
            req_user : {"", "diana", "krall"},
            prompt_none : BOOLEAN] :
        a.uid_b64 => a.has_sid}

\* authn_event says which AuthenticationEvent the returned session is bound
\* to: the one of the cookie's session ("existing", lines 572, 577 and 581)
\* or the one made at line 587 ("new").
SetupResult(kind, error, session, client_id, authn_event) ==
    [kind |-> kind, error |-> error, session |-> session, client_id |-> client_id,
     authn_event |-> authn_event]

Handoff == SetupResult("function", "", "", "", "")

LoginRequired == SetupResult("error", "login_required", "", "", "")

\* lines 482-518: TRUE when identity is None at line 525.
identity_is_none(a) ==
    \/ a.authenticated_as # "identity"
    \/ a.uid_b64 /\ a.grant_state \in {"revoked", "inactive"}

re_authenticate(a) == FALSE

\* setup_session without the comparison of line 565.
setup_session_any_client(a) ==
    IF a.has_sid
    THEN IF a.grant_state = "revoked" THEN SetupResult("raised", "Revoked", "", "", "")
         ELSE IF a.grant_state = "inactive" THEN Handoff
         ELSE IF ~a.same_request
         THEN IF ~a.event_valid THEN Handoff
              ELSE SetupResult("session", "", "create_grant", "client_1", "existing")
         ELSE IF ~a.event_valid THEN Handoff
         ELSE SetupResult("session", "", "reused", a.sid_client, "existing")
    ELSE SetupResult("session", "", "create_session", "client_1", "new")

\* setup_session that makes a new Grant whenever the cookie names a session.
setup_session_never_reuses(a) ==
    IF a.has_sid
    THEN IF a.sid_client # "client_1" THEN Handoff
         ELSE IF a.grant_state = "revoked" THEN SetupResult("raised", "Revoked", "", "", "")
         ELSE IF a.grant_state = "inactive" THEN Handoff
         ELSE IF ~a.event_valid THEN Handoff
         ELSE SetupResult("session", "", "create_grant", "client_1", "existing")
    ELSE SetupResult("session", "", "create_session", "client_1", "new")

\* lines 560-600 for an identity that was accepted as it is.
setup_session(a) ==
    IF a.has_sid
    THEN IF a.sid_client # "client_1" THEN Handoff
         ELSE IF a.grant_state = "revoked" THEN SetupResult("raised", "Revoked", "", "", "")
         ELSE IF a.grant_state = "inactive" THEN Handoff
         ELSE IF ~a.same_request
         THEN IF ~a.event_valid THEN Handoff
              ELSE SetupResult("session", "", "create_grant", "client_1", "existing")
         ELSE IF ~a.event_valid THEN Handoff
         ELSE SetupResult("session", "", "reused", a.sid_client, "existing")
    ELSE SetupResult("session", "", "create_session", "client_1", "new")

setup_auth(a) ==
    IF ~a.method_found THEN SetupResult("raised", "KeyError", "", "", "")
    ELSE IF identity_is_none(a)
    THEN IF a.prompt_none THEN LoginRequired ELSE Handoff
    ELSE IF re_authenticate(a) THEN Handoff
    ELSE IF a.req_user # "" /\ a.req_user # "diana"
    THEN IF a.prompt_none THEN LoginRequired ELSE Handoff
    ELSE setup_session(a)

\* The session the cookie names: diana's first Grant at the cookie's client.
CookiePath(a) == <<<<"diana">>, <<a.sid_client>>, GrantId(1)>>

\* The session store setup_auth meets: the Grant of the cookie's session when
\* the identity names one, revoked when the Grant is not active.
SetupStore(a) ==
    IF a.has_sid
    THEN [p \in {CookiePath(a)} |->
             [NewGrant(usage_rules_of(<<a.sid_client>>)) EXCEPT
                 !.revoked = (a.grant_state = "inactive")]]
    ELSE [p \in {} |-> NewGrant(RulesDefault)]

\* The client session of the cookie's session, revoked when the session
\* manager answers the lookup with Revoked.
SetupClientSessions(a) ==
    [c \in (IF a.has_sid THEN {a.sid_client} ELSE {}) |->
        [revoked |-> (a.grant_state = "revoked")]]

\* lines 576-580 and 589-600: create_grant and create_session store a new
\* Grant of the cookie's user for the request's client under the next grant
\* id.  create_session is given the usage rules of the client (lines
\* 596-600), create_grant is given none (lines 577-580).
NewSessionPath(store) ==
    <<<<"diana">>, <<"client_1">>, GrantId(Cardinality(DOMAIN store) + 1)>>

setup_store(store, result) ==
    IF result.session = "create_session"
    THEN db_set(store, NewSessionPath(store), NewGrant(usage_rules_of(<<"client_1">>)))
    ELSE IF result.session = "create_grant"
    THEN db_set(store, NewSessionPath(store), NewGrant(NoRules))
    ELSE store

\* The session_id of the returned dictionary (line 602), <<>> when setup_auth
\* returns no session.
setup_session_id(store, a, result) ==
    IF result.session = "reused"
    THEN session_key(CookiePath(a)[1], CookiePath(a)[2], CookiePath(a)[3])
    ELSE IF result.session \in {"create_grant", "create_session"}
    THEN session_key(NewSessionPath(store)[1], NewSessionPath(store)[2],
                     NewSessionPath(store)[3])
    ELSE <<>>

\* create_session also starts the client session of the request's client.
setup_clients(clients, result) ==
    IF result.session = "create_session"
    THEN [c \in DOMAIN clients \cup {"client_1"} |->
             IF c \in DOMAIN clients THEN clients[c] ELSE [revoked |-> FALSE]]
    ELSE clients

InitSetup ==
    /\ inp \in SetupInputs
    /\ db = SetupStore(inp)
    /\ client_session = SetupClientSessions(inp)
    /\ now = 0
    /\ nonce = 0
    /\ issued = {}
    /\ served = {}
    /\ last = Op("init", <<>>, "", 0, "")
    /\ ops = 0
    /\ aresp = NoResponse
    /\ RaceIdle
    /\ par_db = <<>>
    /\ logout = NoLogout
    /\ resolved = {}
    /\ out = NoOutput

\* Authorization.setup_auth: what it returns, and the Grant that create_grant
\* or create_session puts into the session store; create_session also starts
\* the client session.  before: the sessions stored when it was called.
SetupAuth ==
    /\ inp.kind = "setup"
    /\ out.kind = "none"
    /\ \E r \in {setup_auth(inp)} :
          /\ out' = [kind |-> "setup", result |-> r,
                     session_id |-> setup_session_id(db, inp, r),
                     before |-> DOMAIN db]
          /\ db' = setup_store(db, r)
          /\ client_session' = setup_clients(client_session, r)
    /\ UNCHANGED <<now, nonce, issued, served, last, ops, aresp, inp, raceVars,
                   par_db, logout, resolved>>

NextSetup == SetupAuth

SpecSetup == InitSetup /\ [][NextSetup]_vars

\* -------------------------------------------------------- process_request
\* One case of what setup_auth meets, the cookie's session being diana's at
\* client_1 with a valid authentication event.
SetupCase(method_found, authenticated_as, has_sid, grant_state, same_request,
          prompt_none) ==
    [kind |-> "setup", method_found |-> method_found,
     authenticated_as |-> authenticated_as, uid_b64 |-> FALSE,
     has_sid |-> has_sid, sid_client |-> "client_1", grant_state |-> grant_state,
     same_request |-> same_request, event_valid |-> TRUE, req_user |-> "",
     prompt_none |-> prompt_none]

\* No authentication method; no identity, with and without prompt=none; an
\* identity without session; the session of this request; the session of
\* another request; a revoked session.
ProcessSetups ==
    {SetupCase(FALSE, "identity", FALSE, "active", TRUE, FALSE),
     SetupCase(TRUE, "None", FALSE, "active", TRUE, TRUE),
     SetupCase(TRUE, "None", FALSE, "active", TRUE, FALSE),
     SetupCase(TRUE, "identity", FALSE, "active", TRUE, FALSE),
     SetupCase(TRUE, "identity", TRUE, "active", TRUE, FALSE),
     SetupCase(TRUE, "identity", TRUE, "active", FALSE, FALSE),
     SetupCase(TRUE, "identity", TRUE, "revoked", TRUE, FALSE)}

\* What process_request meets besides the request: the case of setup_auth,
\* whether the authentication function returns (function_ok) or raises, and
\* for authz_part2 the state of the request, what endpoint_context.authz does
\* and whether provider_info holds check_session_iframe.
ProcessEnvs ==
    [setup : ProcessSetups, function_ok : BOOLEAN, has_state : BOOLEAN,
     authz : {"ok", "ToOld"}, check_session_iframe : BOOLEAN]

\* The request as authz_part2 gets it: _post_parse_request has put the
\* redirect_uri into it.
authz_request(request, parsed, e) ==
    [kind |-> "authn", client_id |-> request.client_id,
     registered |-> request.registered, response_type |-> request.response_type,
     response_mode |-> "", has_state |-> e.has_state,
     has_redirect_uri |-> TRUE, redirect_uri |-> parsed.redirect_uri,
     authz |-> e.authz, set_ok |-> TRUE, idt |-> "ok",
     check_session_iframe |-> e.check_session_iframe, authn_event |-> "valid",
     create_cookie |-> TRUE]

Processed(result, store, clients, n) ==
    [result |-> result, store |-> store, clients |-> clients, n |-> n]

\* lines 950-958: the authentication function is run; its exception becomes
\* the text of the response, which then has no return_uri.
run_function(function_ok, redirect_uri) ==
    IF function_ok
    THEN [kind |-> "http_response", http_response |-> "function",
          has_return_uri |-> TRUE, return_uri |-> redirect_uri]
    ELSE [kind |-> "http_response", http_response |-> "Internal error",
          has_return_uri |-> FALSE, return_uri |-> NoUri]

\* lines 944-948: authz_part2 for the session setup_auth returned; what it
\* returns is what process_request returns, its exception leaves both.
process_authz(request, r) ==
    IF r.kind = "raised" THEN Raised(r.exception)
    ELSE [kind |-> "resp_info", info |-> r.info]

\* Authorization.process_request: the error response of the parsing goes back
\* as it is; the scope policy; setup_auth with the Grant it stores; then the
\* dictionary of setup_auth that holds "error" (lines 941-942), authz_part2
\* or the authentication function.  `e` is what
\* the request meets, `store`, `clients` and `n` the state of the session
\* manager.
process_request(request, parsed, e, store, clients, n) ==
    IF parsed.kind = "error" THEN Processed(parsed, store, clients, n)
    ELSE IF check_unknown_scopes_policy(request) # ""
    THEN Processed(Raised(check_unknown_scopes_policy(request)), store, clients, n)
    ELSE CHOOSE p \in UNION {
           {IF info.kind = "raised"
            THEN Processed(Raised(info.error), store, clients, n)
            ELSE IF info.kind = "error"
            THEN Processed([kind |-> "setup_error", error |-> info.error],
                           store, clients, n)
            ELSE IF info.kind = "function"
            THEN Processed(run_function(e.function_ok, parsed.redirect_uri),
                           store, clients, n)
            ELSE CHOOSE q \in
                   {Processed(process_authz(request, r), r.store,
                              setup_clients(clients, info), r.n) :
                      r \in {authz_part2(authz_request(request, parsed, e),
                                         setup_store(store, info),
                                         setup_session_id(store, e.setup, info),
                                         n)}} : TRUE} :
           info \in {setup_auth(e.setup)}} : TRUE

\* The store is the one a case of setup_auth meets.
InitParse ==
    /\ inp \in AuthzRequests
    /\ \E a \in ProcessSetups :
          /\ db = SetupStore(a)
          /\ client_session = SetupClientSessions(a)
    /\ now = 0
    /\ nonce = 0
    /\ issued = {}
    /\ served = {}
    /\ last = Op("init", <<>>, "", 0, "")
    /\ ops = 0
    /\ aresp = NoResponse
    /\ RaceIdle
    /\ par_db = <<>>
    /\ logout = NoLogout
    /\ resolved = {}
    /\ out = NoOutput

ParseRequest ==
    /\ inp.kind = "authz"
    /\ out.kind = "none"
    /\ out' = [kind |-> "parsed", result |-> post_parse_request(inp)]
    /\ UNCHANGED <<inp, engineVars, raceVars, sideVars>>

\* process_request for the parsed request, in one of the cases the store
\* allows.  before: the sessions stored when it was called.
ProcessRequest(e) ==
    /\ out.kind = "parsed"
    /\ out.result.kind # "raised"
    /\ db = SetupStore(e.setup)
    /\ client_session = SetupClientSessions(e.setup)
    /\ \E p \in {process_request(inp, out.result, e, db, client_session, nonce)} :
          /\ out' = [kind |-> "processed", result |-> p.result,
                     before |-> DOMAIN db]
          /\ db' = p.store
          /\ client_session' = p.clients
          /\ nonce' = p.n
    /\ UNCHANGED <<now, issued, served, last, ops, aresp, inp, raceVars,
                   par_db, logout, resolved>>

\* get_uri for the request, as post_authentication calls it.
GetUri ==
    /\ inp.kind = "authz"
    /\ out.kind = "none"
    /\ \E r \in {get_uri(cdb_of(inp.registered), inp)} :
          out' = [kind |-> "get_uri", err |-> r.err, uri |-> r.uri]
    /\ UNCHANGED <<inp, engineVars, raceVars, sideVars>>

NextParse ==
    \/ ParseRequest
    \/ \E e \in ProcessEnvs : ProcessRequest(e)
    \/ GetUri

SpecParse == InitParse /\ [][NextParse]_vars

\* ----------------------------------------------------- end-session endpoint
\* The session of diana at client_1 that the session cookie names, and the
\* sub of its client session.
EndSessionClient == "client_1"

EndSessionSub == "sub_1"

\* issuer + "/" + kwargs["post_logout_uri_path"] (lines 288-291)
PostLogoutUri == Uri("https://op/post_logout", NoQuery, "")

\* The payload of the signed JWT of the redirect to logout_verify_url;
\* has_state tells whether it holds "state", state_in_uri whether the redirect
\* target got "?state=" appended.
Payload(sid, has_state, state, redirect_uri, state_in_uri) ==
    [sid |-> sid, has_state |-> has_state, state |-> state,
     redirect_uri |-> redirect_uri, state_in_uri |-> state_in_uri]

NoPayload == Payload(<<>>, FALSE, "", NoUri, FALSE)

EndSessionResult(kind, exception, payload) ==
    [kind |-> kind, exception |-> exception, payload |-> payload]

hint_not_required(request) == FALSE

\* lines 236-240: a post_logout_redirect_uri without an id_token_hint
hint_required(request) == request.has_plur /\ ~request.has_hint

state_in_payload_always(request, plur) == request.has_state

\* line 298: `if plur and "state" in request`
state_in_payload(request, plur) == plur /\ request.has_state

\* client_info.get("{}s".format(uri_type)) of verify_uri for uri_type
\* post_logout_redirect_uri: the URIs the validation runs against.
post_logout_cdb(registered) ==
    [c \in DOMAIN registered |-> [redirect_uris |-> registered[c]]]

\* process_request without the comparison of the sub (lines 275-276).
session_process_request_any_sub(request) ==
    IF hint_required(request)
    THEN EndSessionResult("raised", "InvalidRequest", NoPayload)
    ELSE IF request.cookie = "IndexError"
    THEN EndSessionResult("raised", "InvalidRequest", NoPayload)
    ELSE IF request.cookie # "ok"
    THEN EndSessionResult("raised", "ValueError", NoPayload)
    ELSE IF request.has_hint /\ ~request.hint_verified
    THEN EndSessionResult("raised", "KeyError", NoPayload)
    ELSE IF request.has_hint /\ EndSessionClient \notin request.hint_aud
    THEN EndSessionResult("raised", "ValueError", NoPayload)
    ELSE
    LET plur == request.has_plur
        _cid == IF request.client_id # "" THEN request.client_id ELSE EndSessionClient
        v == IF plur
             THEN verify_uri(post_logout_cdb(request.registered), _cid,
                             request.post_logout_redirect_uri)
             ELSE "ok"
        _uri == IF plur THEN request.post_logout_redirect_uri ELSE PostLogoutUri
    IN IF v # "ok" THEN EndSessionResult("raised", v, NoPayload)
       ELSE EndSessionResult("returned", "",
                Payload(AuthnSession, state_in_payload(request, plur),
                        IF state_in_payload(request, plur) THEN request.state ELSE "",
                        _uri, state_in_payload(request, plur)))

\* Session.process_request.  request.cookie is what get_cookie_value and
\* get_session_info do for the cookie ("ok", "IndexError", "KeyError" for no
\* cookie value, "unknown" for a sid without session); request.client_id is
\* the client_id parse_request put into the request ("" when none).
session_process_request(request) ==
    IF hint_required(request)
    THEN EndSessionResult("raised", "InvalidRequest", NoPayload)
    ELSE IF request.cookie = "IndexError"
    THEN EndSessionResult("raised", "InvalidRequest", NoPayload)
    ELSE IF request.cookie # "ok"
    THEN EndSessionResult("raised", "ValueError", NoPayload)
    ELSE IF request.has_hint /\ ~request.hint_verified
    THEN EndSessionResult("raised", "KeyError", NoPayload)
    ELSE IF request.has_hint /\ EndSessionClient \notin request.hint_aud
    THEN EndSessionResult("raised", "ValueError", NoPayload)
    ELSE IF request.has_hint /\ request.hint_sub # EndSessionSub
    THEN EndSessionResult("raised", "ValueError", NoPayload)
    ELSE
    LET plur == request.has_plur
        _cid == IF request.client_id # "" THEN request.client_id ELSE EndSessionClient
        v == IF plur
             THEN verify_uri(post_logout_cdb(request.registered), _cid,
                             request.post_logout_redirect_uri)
             ELSE "ok"
        _uri == IF plur THEN request.post_logout_redirect_uri ELSE PostLogoutUri
    IN IF v # "ok" THEN EndSessionResult("raised", v, NoPayload)
       ELSE EndSessionResult("returned", "",
                Payload(AuthnSession, state_in_payload(request, plur),
                        IF state_in_payload(request, plur) THEN request.state ELSE "",
                        _uri, state_in_payload(request, plur)))

PostLogoutUris ==
    {Uri("https://cb", NoQuery, ""), Uri("https://other", NoQuery, ""),
     Uri("https://cb", FooIs1, ""), Uri("https://cb", NoQuery, "frag")}

PostLogoutRegistered ==
    {[c \in {"client_1", "client_2"} |->
         IF c = "client_1" THEN r ELSE <<[base |-> "https://other", query |-> NoQuery]>>] :
       r \in {<<>>, <<[base |-> "https://cb", query |-> NoQuery]>>}}

EndSessionHints ==
    {[has_hint |-> FALSE, hint_verified |-> FALSE, hint_aud |-> {}, hint_sub |-> ""],
     [has_hint |-> TRUE, hint_verified |-> FALSE, hint_aud |-> {}, hint_sub |-> ""]}
    \cup {[has_hint |-> TRUE, hint_verified |-> TRUE, hint_aud |-> {a}, hint_sub |-> s] :
            a \in {"client_1", "client_2"}, s \in {"sub_1", "sub_2"}}

\* cdb: client_1 registered a backchannel_logout_uri, client_2 a
\* frontchannel_logout_uri.
EndSessionRequests ==
    {[kind |-> "end_session",
      cdb |-> [c \in Range(LogoutClients) |->
                  IF c = "client_1" THEN {"backchannel_logout_uri"}
                  ELSE IF c = "client_2" THEN {"frontchannel_logout_uri"} ELSE {}],
      registered |-> reg, client_id |-> cid, cookie |-> ck,
      has_plur |-> u # NoUri, post_logout_redirect_uri |-> u,
      has_hint |-> h.has_hint, hint_verified |-> h.hint_verified,
      hint_aud |-> h.hint_aud, hint_sub |-> h.hint_sub,
      has_state |-> st # "", state |-> st] :
        reg \in PostLogoutRegistered, cid \in {"", "client_2"},
        ck \in {"ok", "IndexError", "KeyError", "unknown"},
        u \in PostLogoutUris \cup {NoUri}, h \in EndSessionHints,
        st \in {"", "abcde"}}

\* The session of diana at client_2, made by the second authorization request.
SecondPath == <<<<"diana">>, <<"client_2">>, GrantId(2)>>

SecondSession == session_key(SecondPath[1], SecondPath[2], SecondPath[3])

\* diana has made two authorization requests with response_type=code, at
\* client_1 and then at client_2: each has its client session and its Grant
\* with the authorization code that was returned in the response.
InitEndSession ==
    /\ now = 0
    /\ \E r1 \in {create_authn_response(FreshStore(RulesDefault), AuthnSession,
                                          {"code"}, "ok", 0)} :
         \E r2 \in {create_authn_response(
                        db_set(r1.store, SecondPath,
                               NewGrant(usage_rules_of(SecondPath[2]))),
                        SecondSession, {"code"}, "ok", r1.n)} :
          /\ db = r2.store
          /\ nonce = r2.n
          /\ issued = {<<AuthnSession, r1.response.code>>,
                       <<SecondSession, r2.response.code>>}
          /\ aresp = r2.response
    /\ served = {}
    /\ last = Op("authz_part2", SecondSession, "", 0, "ok")
    /\ ops = 0
    /\ RaceIdle
    /\ par_db = <<>>
    /\ resolved = {}
    /\ logout = NoLogout
    /\ client_session = [c \in {"client_1", "client_2"} |-> [revoked |-> FALSE]]
    /\ inp \in EndSessionRequests
    /\ out = NoOutput

\* The end-session request is answered.
EndSession ==
    /\ inp.kind = "end_session"
    /\ out.kind = "none"
    /\ out' = [kind |-> "end_session", result |-> session_process_request(inp)]
    /\ UNCHANGED <<inp, engineVars, raceVars, sideVars>>

\* The confirmation step presents the signed JWT back and calls
\* do_verified_logout with its sid.
VerifiedLogout(alla) ==
    /\ out.kind = "end_session"
    /\ out.result.kind = "returned"
    /\ out.result.payload.sid = AuthnSession
    /\ StartLogout(EndSessionClient, alla)

NextEndSession ==
    \/ EndSession
    \/ \E alla \in BOOLEAN : VerifiedLogout(alla)
    \/ \E outcome \in PostOutcomes : PostLogout(outcome)
    \/ ReturnLogout

SpecEndSession == InitEndSession /\ [][NextEndSession]_vars

\* ---------------------------------------------------------- claims resolver
\* Python's None as a value of a claim.
Null == "null"

\* A claimspec: None, or a dictionary as the sequence of its items in the
\* order of iteration; an item holds its key and, by the key, the value
\* ("value"), the list ("values") or the flag ("essential").
Item(key, val, vals, flag) == [key |-> key, val |-> val, vals |-> vals, flag |-> flag]

NoneSpec == [is_none |-> TRUE, items |-> <<>>]

DictSpec(items) == [is_none |-> FALSE, items |-> items]

Keys(items) == [i \in DOMAIN items |-> items[i].key]

only_essential_among(keys) == \E i \in DOMAIN keys : keys[i] = "essential"

\* line 171: list(claimspec.keys()) == ["essential"]
only_essential(keys) == keys = <<"essential">>

\* claims_match, lines 155-168: the loop over the items, left at the first
\* match.
RECURSIVE claims_match_loop(_, _)
claims_match_loop(value, items) ==
    IF items = <<>> THEN FALSE
    ELSE IF Head(items).key = "value" /\ value = Head(items).val THEN TRUE
    ELSE IF Head(items).key = "values" /\ value \in Head(items).vals THEN TRUE
    ELSE claims_match_loop(value, Tail(items))

\* claims_match (session/claims.py and, with the same text, userinfo.py)
claims_match(value, claimspec) ==
    IF value = Null THEN FALSE
    ELSE IF claimspec.is_none THEN TRUE
    ELSE IF claims_match_loop(value, claimspec.items) THEN TRUE
    ELSE only_essential(Keys(claimspec.items))

ClaimValues == {Null, "red", "blue"}

ClaimItems ==
    {Item("value", v, {}, FALSE) : v \in {"red", "blue"}}
    \cup {Item("values", "", vs, FALSE) : vs \in {{}, {"red"}, {"blue", "green"}}}
    \cup {Item("essential", "", {}, f) : f \in BOOLEAN}
    \cup {Item("other", "", {}, FALSE)}

MaxItems == 3

ClaimSpecs ==
    {NoneSpec} \cup
    {DictSpec(s) : s \in {t \in SeqsUpTo(ClaimItems, MaxItems) :
                            \A i, j \in DOMAIN t : t[i].key = t[j].key => i = j}}

\* dict.update: the items of `other` replace or extend those of `claims`.
update(claims, other) ==
    [k \in DOMAIN claims \cup DOMAIN other |->
        IF k \in DOMAIN other THEN other[k] ELSE claims[k]]

NoClaims == [k \in {} |-> ""]

client_claims_first(client_claims, base_claims) == update(base_claims, client_claims)

\* get_claims, lines 84-89: the client's claims, updated with base_claims.
base_claims_first(client_claims, base_claims) == update(client_claims, base_claims)

\* ClaimsInterface.authorization_request_claims: the claims the authorization
\* request has for the usage, none when its claims parameter has no entry for
\* the usage (request_claims_is_none) or when it has no claims parameter.
authorization_request_claims(c) ==
    IF c.request_claims_is_none THEN NoClaims ELSE c.request_claims

\* ClaimsInterface.get_claims for a configuration `c`: the usage module is
\* configured or not (module), its kwargs (base_claims,
\* enable_claims_per_client, add_claims_by_scope), the client's
\* <usage>_claims in cdb (client_claims_registered: the client has the key;
\* client_claims, kept as a list or as a dictionary), the claims
\* convert_scopes2claims gives for the filtered scopes (scope_claims) and the
\* claims of the authorization request for the usage (request_claims).
\* `claims` is what is returned, `registered` the client's <usage>_claims in
\* cdb after the call: _get_client_claims hands out the registered dictionary
\* itself; a list is turned into a new dictionary, and a client without the
\* key gets a new empty one.
get_claims(c) ==
    LET base_claims == IF c.module THEN c.base_claims ELSE NoClaims
        per_client == c.module /\ c.enable_claims_per_client
        claims1 == base_claims_first(IF per_client THEN c.client_claims ELSE NoClaims,
                                     base_claims)
        claims2 == IF c.module /\ c.add_claims_by_scope
                   THEN update(claims1, c.scope_claims) ELSE claims1
        request_claims == authorization_request_claims(c)
        claims3 == IF DOMAIN request_claims # {}
                   THEN update(claims2, request_claims) ELSE claims2
    IN [claims |-> claims3,
        registered |-> IF per_client /\ c.client_claims_registered
                          /\ ~c.client_claims_is_list
                       THEN claims3 ELSE c.client_claims]

\* userinfo.ClaimsInterface.get_claims (userinfo.py): the client's claims
\* without any switch and without base_claims, updated in place with the
\* scope-derived and the request claims; a registered list has no update.
\* request_claims gives None for a claims parameter without an entry for the
\* usage, and update(None) raises TypeError after the scope-derived claims
\* were written.
userinfo_get_claims(c) ==
    LET claims1 == IF c.add_claims_by_scope
                   THEN update(c.client_claims, c.scope_claims) ELSE c.client_claims
        claims2 == update(claims1, c.request_claims)
    IN IF c.client_claims_is_list
       THEN [err |-> "AttributeError", claims |-> NoClaims,
             registered |-> c.client_claims]
       ELSE IF c.request_claims_is_none
       THEN [err |-> "TypeError", claims |-> NoClaims,
             registered |-> IF c.client_claims_registered
                            THEN claims1 ELSE c.client_claims]
       ELSE [err |-> "", claims |-> claims2,
             registered |-> IF c.client_claims_registered
                            THEN claims2 ELSE c.client_claims]

ClaimNames == {"name", "email"}

\* A matching-spec is named by what it asks for.
ClaimsMaps(specs) == UNION {[D -> specs] : D \in SUBSET ClaimNames}

ClaimsConfigs ==
    [kind : {"get_claims"},
     module : BOOLEAN,
     enable_claims_per_client : BOOLEAN,
     add_claims_by_scope : BOOLEAN,
     base_claims : ClaimsMaps({"None", "essential"}),
     client_claims_registered : {TRUE},
     client_claims : ClaimsMaps({"None", "value"}),
     client_claims_is_list : {FALSE},
     scope_claims : ClaimsMaps({"None"}),
     request_claims : ClaimsMaps({"essential", "values"}),
     request_claims_is_none : {FALSE}]
    \cup
    [kind : {"get_claims"},
     module : BOOLEAN,
     enable_claims_per_client : BOOLEAN,
     add_claims_by_scope : BOOLEAN,
     base_claims : ClaimsMaps({"None", "essential"}),
     client_claims_registered : {TRUE},
     client_claims : ClaimsMaps({"None"}),
     client_claims_is_list : {TRUE},
     scope_claims : ClaimsMaps({"None"}),
     request_claims : ClaimsMaps({"essential", "values"}),
     request_claims_is_none : {FALSE}]
    \cup
    [kind : {"get_claims"},
     module : BOOLEAN,
     enable_claims_per_client : BOOLEAN,
     add_claims_by_scope : BOOLEAN,
     base_claims : ClaimsMaps({"None", "essential"}),
     client_claims_registered : {FALSE},
     client_claims : {NoClaims},
     client_claims_is_list : {FALSE},
     scope_claims : ClaimsMaps({"None"}),
     request_claims : ClaimsMaps({"essential", "values"}),
     request_claims_is_none : {FALSE}]

\* Requests whose claims parameter has no entry for the usage.
ClaimsConfigsOtherUsage ==
    [kind : {"get_claims"},
     module : BOOLEAN,
     enable_claims_per_client : BOOLEAN,
     add_claims_by_scope : BOOLEAN,
     base_claims : ClaimsMaps({"None"}),
     client_claims_registered : {TRUE},
     client_claims : ClaimsMaps({"None"}),
     client_claims_is_list : BOOLEAN,
     scope_claims : ClaimsMaps({"None"}),
     request_claims : {NoClaims},
     request_claims_is_none : {TRUE}]
    \cup
    [kind : {"get_claims"},
     module : BOOLEAN,
     enable_claims_per_client : BOOLEAN,
     add_claims_by_scope : BOOLEAN,
     base_claims : ClaimsMaps({"None"}),
     client_claims_registered : {FALSE},
     client_claims : {NoClaims},
     client_claims_is_list : {FALSE},
     scope_claims : ClaimsMaps({"None"}),
     request_claims : {NoClaims},
     request_claims_is_none : {TRUE}]

\* get_claims_all_usage asks for these usages in this order; no branch of
\* get_claims knows the usage "token", so that call has no module.
AllUsages == <<"userinfo", "introspection", "id_token", "token">>

RegisteredUsages == {"userinfo", "introspection", "id_token"}

\* The configuration get_claims meets for one usage of a get_claims_all_usage
\* call `a`: the modules of the three usages are configured, each with its
\* base_claims, the client has registered claims for each, and the
\* authorization request has claims for userinfo and id_token.
usage_config(a, usage) ==
    [kind |-> "get_claims",
     module |-> usage \in RegisteredUsages,
     enable_claims_per_client |-> a.enable_claims_per_client,
     add_claims_by_scope |-> FALSE,
     base_claims |-> IF usage \in RegisteredUsages THEN a.base_claims[usage]
                     ELSE NoClaims,
     client_claims_registered |-> usage \in RegisteredUsages,
     client_claims |-> IF usage \in RegisteredUsages THEN a.registered[usage]
                       ELSE NoClaims,
     client_claims_is_list |-> FALSE,
     scope_claims |-> NoClaims,
     request_claims |-> IF usage \in {"userinfo", "id_token"} THEN a.request[usage]
                        ELSE NoClaims,
     request_claims_is_none |-> FALSE]

RECURSIVE all_usage_claims(_, _)
all_usage_claims(a, usages) ==
    IF usages = <<>> THEN NoClaims
    ELSE update(all_usage_claims(a, SubSeq(usages, 1, Len(usages) - 1)),
                get_claims(usage_config(a, usages[Len(usages)])).claims)

\* ClaimsInterface.get_claims_all_usage: the claims of the four usages, a
\* later usage over an earlier one, and the client's registered claims of
\* each usage after the call.
get_claims_all_usage(a) ==
    [claims |-> all_usage_claims(a, AllUsages),
     registered |-> [u \in RegisteredUsages |->
                        get_claims(usage_config(a, u)).registered]]

AllUsageCalls ==
    [kind : {"get_claims_all_usage"},
     enable_claims_per_client : BOOLEAN,
     base_claims : [RegisteredUsages -> {NoClaims, [k \in {"email"} |-> "None"]}],
     registered : [RegisteredUsages -> {NoClaims, [k \in {"name"} |-> "None"]}],
     request : [{"userinfo", "id_token"} -> ClaimsMaps({"None", "essential"})]]

InitClaims ==
    /\ EngineInit
    /\ RaceIdle
    /\ SideIdle
    /\ inp \in [kind : {"claims_match"}, value : ClaimValues, claimspec : ClaimSpecs]
               \cup ClaimsConfigs \cup ClaimsConfigsOtherUsage \cup AllUsageCalls
    /\ out = NoOutput

ClaimsMatch ==
    /\ inp.kind = "claims_match"
    /\ out.kind = "none"
    /\ out' = [kind |-> "claims_match",
               result |-> claims_match(inp.value, inp.claimspec)]
    /\ UNCHANGED <<inp, engineVars, raceVars, sideVars>>

GetClaims ==
    /\ inp.kind = "get_claims"
    /\ out.kind = "none"
    /\ \E r \in {get_claims(inp)} :
          out' = [kind |-> "get_claims", claims |-> r.claims,
                  registered |-> r.registered]
    /\ UNCHANGED <<inp, engineVars, raceVars, sideVars>>

\* A later get_claims call for the same client and usage: for the same
\* session (the scopes and request claims of the first call) or for another
\* session with scope-derived claims `sc` and request claims `rc` of its
\* own.  The client's <usage>_claims in cdb are what the first call left.
GetClaimsAgain(sc, rc) ==
    /\ inp.kind = "get_claims"
    /\ out.kind = "get_claims"
    /\ \E r \in {get_claims([inp EXCEPT !.client_claims = out.registered,
                                        !.scope_claims = sc,
                                        !.request_claims = rc,
                                        !.request_claims_is_none =
                                            (@ /\ rc = inp.request_claims)])} :
          out' = [kind |-> "get_claims_again", claims |-> r.claims,
                  registered |-> r.registered, first |-> out.claims,
                  scope_claims |-> sc, request_claims |-> rc]
    /\ UNCHANGED <<inp, engineVars, raceVars, sideVars>>

GetClaimsAllUsage ==
    /\ inp.kind = "get_claims_all_usage"
    /\ out.kind = "none"
    /\ \E r \in {get_claims_all_usage(inp)} :
          out' = [kind |-> "get_claims_all_usage", claims |-> r.claims,
                  registered |-> r.registered]
    /\ UNCHANGED <<inp, engineVars, raceVars, sideVars>>

\* get_claims of the userinfo module's own ClaimsInterface.
UserinfoGetClaims ==
    /\ inp.kind = "get_claims"
    /\ out.kind = "none"
    /\ \E r \in {userinfo_get_claims(inp)} :
          out' = [kind |-> "userinfo_get_claims", err |-> r.err,
                  claims |-> r.claims, registered |-> r.registered]
    /\ UNCHANGED <<inp, engineVars, raceVars, sideVars>>

NextClaims ==
    \/ ClaimsMatch
    \/ GetClaims
    \/ /\ inp.kind = "get_claims"
       /\ \E sc \in {inp.scope_claims, NoClaims},
             rc \in {inp.request_claims} \cup ClaimsMaps({"essential"}) :
               GetClaimsAgain(sc, rc)
    \/ GetClaimsAllUsage
    \/ UserinfoGetClaims

SpecClaims == InitClaims /\ [][NextClaims]_vars

\* ---------------------------------------------------------------- form_post
\* An HTML document is the sequence of its pieces: the markup of the templates
\* in whole pieces, the text put into the placeholders character by character.
Quote == "\""

InputOpen == "<input type=\"hidden\" name="

ValueAttr == " value="

InputClose == "/>"

MaxValueLen == 2

FormChars == {"a", Quote}

FieldValues == SeqsUpTo(FormChars, MaxValueLen)

FieldNames == {<<"c", "o", "d", "e">>, <<"s", "t", "a", "t", "e">>}

Field(name, value) == [name |-> name, value |-> value]

\* "{}".format(value) of html_field: the text of the value as it is.
format_value(value) == value

\* html_field.format(name, value), line 76
html_field(name, value) ==
    <<InputOpen, Quote>> \o name \o <<Quote, ValueAttr, Quote>>
        \o format_value(value) \o <<Quote, InputClose>>

\* inputs(form_args): one element for every item, joined with "\n".
RECURSIVE inputs(_)
inputs(form_args) ==
    IF form_args = <<>> THEN <<>>
    ELSE IF Len(form_args) = 1
    THEN html_field(form_args[1].name, form_args[1].value)
    ELSE html_field(form_args[1].name, form_args[1].value) \o <<"\n">>
         \o inputs(Tail(form_args))

\* FORM_POST.format(inputs=..., action=...), lines 60-69 and 610-613
FORM_POST(_inputs, action) ==
    <<"<html><head><title>Submit This Form</title></head>",
      "<body onload=\"javascript:document.forms[0].submit()\">",
      "<form method=\"post\" action=", Quote>> \o action \o <<Quote, ">">>
      \o _inputs \o <<"</form></body></html>">>

\* response_mode with resp_mode form_post: what it adds to the response
\* information.
form_post(response_args, return_uri) ==
    [response_msg |-> FORM_POST(inputs(response_args), return_uri),
     content_type |-> "text/html",
     response_placement |-> "body"]

\* Reading the document as an HTML parser does: the text of a quoted
\* attribute value ends at the next quotation mark.
RECURSIVE quoted(_)
quoted(s) ==
    IF s = <<>> \/ Head(s) = Quote THEN <<>> ELSE <<Head(s)>> \o quoted(Tail(s))

RECURSIVE after_quote(_)
after_quote(s) ==
    IF s = <<>> THEN <<>>
    ELSE IF Head(s) = Quote THEN Tail(s) ELSE after_quote(Tail(s))

RECURSIVE after_close(_)
after_close(s) ==
    IF s = <<>> THEN <<>>
    ELSE IF Head(s) = InputClose THEN Tail(s) ELSE after_close(Tail(s))

\* The value attribute of the element whose text after the name is `s`.
value_attribute(s) ==
    IF Len(s) >= 2 /\ s[1] = ValueAttr /\ s[2] = Quote
    THEN quoted(Tail(Tail(s))) ELSE <<>>

\* The hidden input elements of a document, in its order.
RECURSIVE hidden_inputs(_)
hidden_inputs(doc) ==
    IF doc = <<>> THEN <<>>
    ELSE IF Head(doc) = InputOpen /\ Len(doc) >= 2 /\ doc[2] = Quote
    THEN <<Field(quoted(Tail(Tail(doc))),
                 value_attribute(after_quote(Tail(Tail(doc)))))>>
         \o hidden_inputs(after_close(doc))
    ELSE hidden_inputs(Tail(doc))

\* The action attribute of the form.
form_action(doc) ==
    IF \E i \in DOMAIN doc : doc[i] = "<form method=\"post\" action="
    THEN quoted(SubSeq(doc, 2 + (CHOOSE i \in DOMAIN doc :
                                    doc[i] = "<form method=\"post\" action="),
                       Len(doc)))
    ELSE <<>>

ReturnUris == {<<"h", "t", "t", "p", "s", ":", "/", "/", "c", "b">>,
               <<"h", "t", "t", "p", "s", ":", "/", "/", "c", "b", "?", "f", "=", "1">>}

\* response_args.to_dict(): up to two fields, in the order of the dictionary.
FormArgs ==
    {s \in SeqsUpTo({Field(n, v) : n \in FieldNames, v \in FieldValues}, 2) :
        \A i, j \in DOMAIN s : s[i].name = s[j].name => i = j}

InitForm ==
    /\ EngineInit
    /\ RaceIdle
    /\ SideIdle
    /\ inp \in [kind : {"form_post"}, response_args : FormArgs, return_uri : ReturnUris]
    /\ out = NoOutput

FormPost ==
    /\ inp.kind = "form_post"
    /\ out.kind = "none"
    /\ \E r \in {form_post(inp.response_args, inp.return_uri)} :
          out' = [kind |-> "form_post", response_msg |-> r.response_msg,
                  content_type |-> r.content_type,
                  response_placement |-> r.response_placement]
    /\ UNCHANGED <<inp, engineVars, raceVars, sideVars>>

NextForm == FormPost

SpecForm == InitForm /\ [][NextForm]_vars

\* -------------------------------------------------------------- token codec
\* JWTToken: a value is the signed JWT, here its payload and the key that
\* signed it.
JwtLifetime == 1

MaxClock == 2

TypeTags == {"A", "T", "R"}

JwtKeys == {"op", "other"}

\* JWTToken.__call__, lines 58-61: the type tag put into the payload.
ttype_of(self_type, ttype) ==
    IF ttype = "" /\ self_type # "" THEN self_type ELSE "A"

\* JWTToken.__call__: the payload signed with the handler's key; exp is what
\* JWT.pack adds for the lifetime.
jwt_token_call(self_type, session_id, ttype, when) ==
    [sid |-> session_id, ttype |-> ttype_of(self_type, ttype),
     exp |-> when + JwtLifetime, key |-> "op"]

\* JWTToken.info: UnknownToken when the value does not verify, ToOld when it
\* has expired, else the metadata.
jwt_token_info(token, when) ==
    IF token.key # "op"
    THEN [err |-> "UnknownToken", sid |-> <<>>, type |-> "", exp |-> 0]
    ELSE IF is_expired([expires_at |-> token.exp], when)
    THEN [err |-> "ToOld", sid |-> <<>>, type |-> "", exp |-> 0]
    ELSE [err |-> "", sid |-> token.sid, type |-> token.ttype, exp |-> token.exp]

InitCodec ==
    /\ EngineInit
    /\ RaceIdle
    /\ SideIdle
    /\ inp \in [kind : {"codec"}, self_type : TypeTags \cup {""},
                 ttype : TypeTags \cup {""},
                 session_id : {session_key(<<"diana">>, c, GrantId(1)) : c \in Clients}]
    /\ out = NoOutput

\* The handler is called for the session id and the type tag.
Encode ==
    /\ inp.kind = "codec"
    /\ out.kind = "none"
    /\ out' = [kind |-> "token",
               value |-> jwt_token_call(inp.self_type, inp.session_id, inp.ttype, now)]
    /\ UNCHANGED <<inp, engineVars, raceVars, sideVars>>

\* A value signed with another key than the handler's is presented instead.
Forge ==
    /\ out.kind = "token"
    /\ out.value.key = "op"
    /\ out' = [out EXCEPT !.value.key = "other"]
    /\ UNCHANGED <<inp, engineVars, raceVars, sideVars>>

ClockTick ==
    /\ inp.kind = "codec"
    /\ out.kind \in {"none", "token"}
    /\ now < MaxClock
    /\ now' = now + 1
    /\ UNCHANGED <<db, nonce, issued, served, last, ops, aresp, fnVars, raceVars,
                   sideVars>>

Decode ==
    /\ out.kind = "token"
    /\ out' = [kind |-> "info", value |-> out.value,
               result |-> jwt_token_info(out.value, now)]
    /\ UNCHANGED <<inp, engineVars, raceVars, sideVars>>

NextCodec == Encode \/ Forge \/ ClockTick \/ Decode

SpecCodec == InitCodec /\ [][NextCodec]_vars

\* ------------------------------------------------------------------ claims
Tokens(path) == db[path].issued_token

TokenAt(session_id, i) == db[PathOf(session_id)].issued_token[i]

\* C1: a Token whose max_usage is 1 and that has not been used is, after one
\* register_usage() call, no longer active and has reached its maximum usage.
C1_OneUsageExhausts ==
    [][\A p \in DOMAIN db : \A i \in DOMAIN db[p].issued_token :
          ( /\ last'.op = "register_usage"
            /\ PathOf(last'.sid) = p
            /\ last'.base = i
            /\ db[p].issued_token[i].max_usage = 1
            /\ db[p].issued_token[i].used = 0 )
          => /\ db'[p].issued_token[i].used = 1
             /\ ~is_active(db'[p].issued_token[i])
             /\ max_usage_reached(db'[p].issued_token[i])]_vars

C1_Witness ==
    /\ last.op = "register_usage"
    /\ TokenAt(last.sid, last.base).max_usage = 1
    /\ TokenAt(last.sid, last.base).used = 1
    /\ TokenAt(last.sid, last.base).type = "authorization_code"
    /\ ~TokenAt(last.sid, last.base).revoked
    /\ ~is_expired(TokenAt(last.sid, last.base), now)

\* The token a mint_token operation was based on, in the state before it.
BaseOf(op) == db[PathOf(op.bsid)].issued_token[op.base]

\* C3: mint_token(token_type = X, based_on = B) fails with MintingNotAllowed and
\* produces no token whenever B is revoked, expired or used up, or X is not in
\* the supports_minting list of usage_rules[B.type] of B's Grant.
C3_MintingNotAllowed ==
    [][\A p \in DOMAIN db : \A b \in DOMAIN db[p].issued_token :
          LET B == db[p].issued_token[b]
              inactive == \/ B.revoked
                          \/ (B.expires_at # 0 /\ now > B.expires_at)
                          \/ (B.max_usage # 0 /\ B.used >= B.max_usage)
              unlisted == last'.typ \notin db[p].usage_rules[B.type].supports_minting
          IN ( /\ last'.op = "mint_token"
               /\ PathOf(last'.bsid) = p
               /\ last'.base = b
               /\ (inactive \/ unlisted) )
             => /\ last'.res = "MintingNotAllowed"
                /\ db' = db
                /\ nonce' = nonce]_vars

\* C3, what tells against it: the code of a Grant made without usage rules
\* has minted an access token.
C3_DefaultMinting ==
    /\ last.op = "mint_token"
    /\ last.res = "ok"
    /\ last.base # 0
    /\ last.typ = "access_token"
    /\ BaseOf(last).type = "authorization_code"
    /\ db[PathOf(last.bsid)].usage_rules = NoRules

\* C3 as amended: mint_token(token_type = X, based_on = B) fails with
\* MintingNotAllowed and produces no token whenever B is revoked, expired or
\* used up, or X is not among the types B supports minting: the
\* supports_minting list of usage_rules[B.type] of B's Grant when that rule has
\* one, the default of B's type when it has none.
C3_MintingNotAllowedByRule ==
    [][\A p \in DOMAIN db : \A b \in DOMAIN db[p].issued_token :
          LET B == db[p].issued_token[b]
              rule == db[p].usage_rules[B.type]
              inactive == \/ B.revoked
                          \/ (B.expires_at # 0 /\ now > B.expires_at)
                          \/ (B.max_usage # 0 /\ B.used >= B.max_usage)
              unlisted == IF rule.listed
                          THEN last'.typ \notin rule.supports_minting
                          ELSE last'.typ \notin DefaultMinting(B.type)
          IN ( /\ last'.op = "mint_token"
               /\ PathOf(last'.bsid) = p
               /\ last'.base = b
               /\ (inactive \/ unlisted) )
             => /\ last'.res = "MintingNotAllowed"
                /\ db' = db
                /\ nonce' = nonce]_vars

\* C3 witness: a token of a type the rule of the base token lists was refused
\* because the base token, of another Grant, is no longer active.
C3_Witness ==
    /\ last.op = "mint_token"
    /\ last.res = "MintingNotAllowed"
    /\ last.base # 0
    /\ last.bsid # last.sid
    /\ ~is_active(BaseOf(last))
    /\ db[PathOf(last.bsid)].usage_rules[BaseOf(last).type].listed
    /\ last.typ \in db[PathOf(last.bsid)].usage_rules[BaseOf(last).type].supports_minting

\* C3: a type outside the default of a code was refused to the active code of
\* a Grant made without usage rules.
C3_RefusedByDefault ==
    /\ last.op = "mint_token"
    /\ last.res = "MintingNotAllowed"
    /\ last.base # 0
    /\ is_active(BaseOf(last))
    /\ BaseOf(last).type = "authorization_code"
    /\ db[PathOf(last.bsid)].usage_rules = NoRules
    /\ last.typ = "id_token"

\* C4: revoking a Grant leaves no token of that Grant's token list active,
\* whatever was minted before.
C4_RevokeGrantRevokesAll ==
    [][\A p \in DOMAIN db :
          (last'.op = "revoke_grant" /\ PathOf(last'.sid) = p)
          => /\ db'[p].revoked
             /\ Len(db'[p].issued_token) = Len(db[p].issued_token)
             /\ \A i \in DOMAIN db'[p].issued_token :
                    /\ db'[p].issued_token[i].revoked
                    /\ ~is_active(db'[p].issued_token[i])]_vars

C4_Witness ==
    /\ last.op = "revoke_grant"
    /\ Len(Tokens(PathOf(last.sid))) >= 3
    /\ \E i \in DOMAIN Tokens(PathOf(last.sid)) :
          LET t == Tokens(PathOf(last.sid))[i]
          IN t.based_on # NoValue /\ ~is_expired(t, now) /\ ~max_usage_reached(t)

\* C5: revoke_token(session_id, token_value) sets the revoked flag of that one
\* Token and changes nothing else: the tokens minted from it, the token it
\* was based on and every other Grant stay as they were.
C5_RevokeTokenFrame ==
    [][\A p \in DOMAIN db :
          (last'.op = "revoke_token" /\ last'.res = "ok" /\ PathOf(last'.sid) = p)
          => /\ DOMAIN db' = DOMAIN db
             /\ \A q \in DOMAIN db : q # p => db'[q] = db[q]
             /\ db'[p] = [db[p] EXCEPT !.issued_token[last'.base].revoked = TRUE]]_vars

C5_Witness ==
    /\ last.op = "revoke_token"
    /\ last.res = "ok"
    /\ LET toks == Tokens(PathOf(last.sid))
           t == toks[last.base]
       IN /\ t.revoked
          /\ \E j \in DOMAIN toks : toks[j].value = t.based_on /\ is_active(toks[j])
          /\ \E k \in DOMAIN toks : toks[k].based_on = t.value /\ is_active(toks[k])

C2_ServedTwice ==
    /\ last.op = "token_request"
    /\ last.res = "ok"
    /\ last.base # 0
    /\ TokenAt(last.sid, last.base).max_usage = 2
    /\ TokenAt(last.sid, last.base).used = 2

C7_IssuedArePersisted ==
    \A e \in issued :
        /\ PathOf(e[1]) \in DOMAIN db
        /\ \E i \in DOMAIN db[PathOf(e[1])].issued_token :
              db[PathOf(e[1])].issued_token[i].value = e[2]

C7_Witness ==
    /\ last.op = "authz_part2"
    /\ aresp.error = ""
    /\ aresp.code # NoValue
    /\ aresp.access_token # NoValue
    /\ {<<last.sid, aresp.code>>, <<last.sid, aresp.access_token>>} \subseteq issued
    /\ \E i, j \in DOMAIN Tokens(PathOf(last.sid)) :
          /\ Tokens(PathOf(last.sid))[i].value = aresp.code
          /\ Tokens(PathOf(last.sid))[j].value = aresp.access_token
          /\ Tokens(PathOf(last.sid))[j].based_on = aresp.code

StoredValues(sid) ==
    {db[PathOf(sid)].issued_token[i].value : i \in DOMAIN db[PathOf(sid)].issued_token}

IssuedFor(sid) == {e[2] : e \in {x \in issued : x[1] = sid}}

\* C8: when the host serializes the requests of a session id, the stored Grant
\* of that session holds every token minted for it, whatever the interleaving;
\* without that mutual exclusion a minted token can be missing from the stored
\* Grant (the state C8_Witness reaches for the session that is not guarded).
C8_NoLostUpdateUnderMutex ==
    \A sid \in guarded : IssuedFor(sid) \subseteq StoredValues(sid)

C8_Witness ==
    /\ \A w \in Workers : pc[w] = "idle"
    /\ \E s1 \in guarded :
          /\ Cardinality(IssuedFor(s1)) >= 2
          /\ IssuedFor(s1) = StoredValues(s1)
    /\ \E s2 \in RaceSessions \ guarded :
          /\ Cardinality(IssuedFor(s2)) = 2
          /\ Cardinality(StoredValues(s2)) = 1

\* C6: unpacking the session key built from (user_id, client_id, grant_id)
\* gives back exactly that triple, and two different triples never get the
\* same key.
C6_KeyRoundTrip ==
    out.kind = "unpacked" =>
        /\ out.unpacked = <<inp.user_id, inp.client_id, inp.grant_id>>
        /\ \A u \in Ids, c \in Ids, g \in Ids :
              session_key(u, c, g) = out.key =>
                  <<u, c, g>> = <<inp.user_id, inp.client_id, inp.grant_id>>

HoldsDividerChar(id) == \E k \in DOMAIN id : id[k] = ";"

\* C6: a user_id that ends with the divider's character is not recovered, and
\* the unpacked key is that of another triple.
C6_KeyNotRecovered ==
    /\ out.kind = "unpacked"
    /\ inp.user_id = <<"a", ";">>
    /\ ~HoldsDividerChar(inp.client_id)
    /\ ~HoldsDividerChar(inp.grant_id)
    /\ Len(out.unpacked) = 3
    /\ out.unpacked[1] = <<"a">>
    /\ out.unpacked # <<inp.user_id, inp.client_id, inp.grant_id>>

\* C6: an identifier that holds the divider makes a key of four parts.
C6_FourParts ==
    /\ out.kind = "unpacked"
    /\ inp.client_id = <<";", ";">>
    /\ Len(out.unpacked) = 4

\* C6, what holds: identifiers without the divider's character are
\* recovered, and no other triple of such identifiers has the same key.
C6_RoundTripWithoutDivider ==
    (out.kind = "unpacked"
        /\ ~HoldsDividerChar(inp.user_id)
        /\ ~HoldsDividerChar(inp.client_id)
        /\ ~HoldsDividerChar(inp.grant_id))
    => /\ out.unpacked = <<inp.user_id, inp.client_id, inp.grant_id>>
       /\ \A u \in Ids, c \in Ids, g \in Ids :
              (session_key(u, c, g) = out.key
                  /\ ~HoldsDividerChar(u) /\ ~HoldsDividerChar(c) /\ ~HoldsDividerChar(g))
              => <<u, c, g>> = <<inp.user_id, inp.client_id, inp.grant_id>>

Included(a, b) == \A k \in DOMAIN a : k \in DOMAIN b /\ a[k] \subseteq b[k]

\* C9: verify_uri accepts a request URI only if it has no fragment and some
\* registered entry has its base, has every registered query key/value in the
\* request and registers every query key/value of the request; with
\* https://cb?foo=1 registered, https://cb?foo=1&bar=2 is rejected and
\* https://cb?foo=1 is accepted.
C9_VerifyUriAccepts ==
    out.kind = "verified" =>
        /\ out.result = "ok" =>
              /\ inp.uri.fragment = ""
              /\ \E i \in DOMAIN inp.registered :
                    /\ inp.registered[i].base = inp.uri.base
                    /\ Included(inp.registered[i].query, inp.uri.query)
                    /\ Included(inp.uri.query, inp.registered[i].query)
        /\ (/\ inp.client_id = "client_1"
            /\ inp.registered = <<[base |-> "https://cb", query |-> FooIs1]>>
            /\ inp.uri = Uri("https://cb", FooIs1Bar2, ""))
               => out.result # "ok"
        /\ (/\ inp.client_id = "client_1"
            /\ inp.registered = <<[base |-> "https://cb", query |-> FooIs1]>>
            /\ inp.uri = Uri("https://cb", FooIs1, ""))
               => out.result = "ok"

C9_Witness ==
    /\ out.kind = "verified"
    /\ out.result = "ok"
    /\ inp.registered = <<[base |-> "https://cb", query |-> FooIs1]>>
    /\ inp.uri = Uri("https://cb", FooIs1, "")

\* C10: an unknown client, an unregistered redirect_uri (query or fragment
\* mismatch included), an unregistered response_type and a scope denied by
\* policy each end as an error response; no exception leaves the endpoint.
C10_ClientErrorsAreResponses ==
    out.kind \in {"parsed", "processed"} => out.result.kind # "raised"

\* C10, the part the code keeps: the unknown client and the unregistered
\* response_type are error responses.
C10_CaughtErrors ==
    out.kind = "parsed" =>
        /\ inp.client_id = "unknown" =>
              out.result.kind = "error" /\ out.result.error = "unauthorized_client"
        /\ (/\ inp.client_id = "client_1"
            /\ inp.response_type \notin
                  (IF inp.response_types = {} THEN {{"code"}} ELSE inp.response_types))
              => out.result.kind = "error" /\ out.result.error = "invalid_request"

\* C10: a redirect_uri with a query parameter the client did not register
\* leaves _post_parse_request as a ValueError.
C10_QueryMismatchRaises ==
    /\ out.kind = "parsed"
    /\ inp.client_id = "client_1"
    /\ inp.response_type = {"code"}
    /\ inp.registered = <<[base |-> "https://cb", query |-> FooIs1]>>
    /\ inp.redirect_uri = Uri("https://cb", FooIs1Bar2, "")
    /\ out.result = Raised("ValueError")

\* C10: a scope denied by policy leaves process_request as
\* UnAuthorizedClientScope.
C10_ScopeDeniedRaises ==
    /\ out.kind = "processed"
    /\ inp.scope = {"openid", "secret"}
    /\ inp.cinfo_has_client_id
    /\ out.result = Raised("UnAuthorizedClientScope")

\* C10: with a client record that holds no 'client_id', the denied scope
\* leaves process_request as the KeyError of the warning.
C10_ScopeDeniedKeyError ==
    /\ out.kind = "processed"
    /\ inp.scope = {"openid", "secret"}
    /\ inp.deny_unknown_scopes
    /\ ~inp.cinfo_has_client_id
    /\ out.result = Raised("KeyError")

\* C10: whatever the client record holds, a scope the policy denies leaves
\* process_request as an exception and the store as it was.
C10_ScopeDeniedNeverResponse ==
    (/\ out.kind = "processed"
     /\ inp.client_id = "client_1"
     /\ check_unknown_scopes_policy(inp) # "")
        => (\/ out.result.kind = "error"
            \/ /\ out.result = Raised(check_unknown_scopes_policy(inp))
               /\ DOMAIN db = out.before)

\* C11: for a request whose prompt holds "none", setup_auth never returns an
\* authentication handoff {function, args}: when authentication is required
\* the outcome is the error login_required.
C11_PromptNoneNeverDefers ==
    (out.kind = "setup" /\ inp.prompt_none) => out.result.kind # "function"

\* C11, the part the code keeps: without a usable identity, or with another
\* user requested, a prompt=none request ends as login_required.
C11_NoIdentityLoginRequired ==
    (/\ out.kind = "setup"
     /\ inp.prompt_none
     /\ inp.method_found
     /\ \/ identity_is_none(inp)
        \/ inp.req_user = "krall")
        => out.result = LoginRequired

\* C11: a prompt=none request whose cookie session belongs to another client
\* is handed to the authentication method.
C11_OtherClientDefers ==
    /\ out.kind = "setup"
    /\ inp.prompt_none
    /\ inp.authenticated_as = "identity"
    /\ inp.has_sid
    /\ inp.sid_client = "client_2"
    /\ inp.grant_state = "active"
    /\ out.result = Handoff

Successful == out.kind = "authz_part2" /\ out.result = "returned"
              /\ out.info.response_args.error = ""

NewTokens == SubSeq(db[AuthnPath].issued_token, out.before + 1,
                    Len(db[AuthnPath].issued_token))

\* C12: create_authn_response mints the code, then the access token, then
\* makes the ID Token: with code and token requested the Grant's list gets the
\* code and after it the access token based on the code; with token alone the
\* access token has no base; the ID Token holds the values minted before it.
C12_MintOrder ==
    (Successful /\ inp.response_type # {"none"}) =>
        LET rt == inp.response_type
            args == out.info.response_args
            types == [i \in DOMAIN NewTokens |-> NewTokens[i].type]
        IN /\ types = (IF "code" \in rt THEN <<"authorization_code">> ELSE <<>>)
                      \o (IF "token" \in rt THEN <<"access_token">> ELSE <<>>)
           /\ \A i \in DOMAIN NewTokens : \A j \in DOMAIN NewTokens :
                 i < j => NewTokens[i].value.rnd < NewTokens[j].value.rnd
           /\ "code" \in rt => args.code = NewTokens[1].value
           /\ ("code" \in rt /\ "token" \in rt) =>
                 /\ NewTokens[2].based_on = NewTokens[1].value
                 /\ args.access_token = NewTokens[2].value
           /\ ("code" \notin rt /\ "token" \in rt) =>
                 /\ NewTokens[1].based_on = NoValue
                 /\ args.access_token = NewTokens[1].value
           /\ "id_token" \in rt =>
                 /\ args.id_token.made
                 /\ args.id_token.code = args.code
                 /\ args.id_token.access_token = args.access_token
           /\ "id_token" \notin rt => ~args.id_token.made

C12_Witness ==
    /\ Successful
    /\ inp.response_type = {"code", "id_token", "token"}
    /\ out.before = 1
    /\ Len(db[AuthnPath].issued_token) = 3
    /\ db[AuthnPath].issued_token[3].based_on = db[AuthnPath].issued_token[2].value
    /\ out.info.response_args.id_token.access_token
          = db[AuthnPath].issued_token[3].value

\* get_session_info_by_token: the sessions whose Grant holds a token with
\* this value.
SessionsOfToken(value) ==
    {session_key(p[1], p[2], p[3]) : p \in
        {q \in DOMAIN db : \E i \in DOMAIN db[q].issued_token :
                              db[q].issued_token[i].value = value}}

C13_ConfiguredMaxUsage ==
    /\ Successful
    /\ inp.response_type = {"code"}
    /\ db[AuthnPath].usage_rules["authorization_code"].max_usage = 2
    /\ Len(NewTokens) = 1
    /\ NewTokens[1].type = "authorization_code"
    /\ NewTokens[1].max_usage = 2

C14_MixUpMitigation ==
    Successful =>
        /\ out.info.response_args.iss = Issuer
        /\ out.info.response_args.client_id = inp.client_id
        /\ out.info.response_msg.made =>
              /\ out.info.response_msg.inputs.iss = Issuer
              /\ out.info.response_msg.inputs.client_id = inp.client_id

\* C14, the part the code keeps: response_args of every response authz_part2
\* builds after post_authentication carries iss and client_id.
C14_ResponseArgsCarryIss ==
    (out.kind = "authz_part2" /\ out.result = "returned"
        /\ out.info.response_args.error # "server_error") =>
        /\ out.info.response_args.iss = Issuer
        /\ out.info.response_args.client_id = inp.client_id

\* C14: a successful form_post response whose document has no iss input.
C14_FormPostWithoutIss ==
    /\ Successful
    /\ inp.response_mode = "form_post"
    /\ inp.response_type = {"code"}
    /\ out.info.response_msg.made
    /\ out.info.response_msg.inputs.code = out.info.response_args.code
    /\ out.info.response_msg.inputs.iss = ""
    /\ out.info.response_args.iss = Issuer

\* C15: no exception leaves authz_part2; every failure on the way to the
\* response is a server_error response.
C15_NoExceptionEscapes ==
    out.kind = "authz_part2" => out.result = "returned"

\* C15, the part the code keeps: an exception inside post_authentication
\* (minting, redirect_uri resolution, cookie creation) is a server_error
\* response.
C15_PostAuthnExceptionIsServerError ==
    (out.kind = "authz_part2"
        /\ post_authentication(inp, FreshStore(db[AuthnPath].usage_rules),
                               AuthnSession, 0).exc # "") =>
        /\ out.result = "returned"
        /\ out.info.response_args.error = "server_error"

\* C15: an error response without return_uri followed by the session_state
\* computation leaves authz_part2 as a KeyError.
C15_KeyErrorEscapes ==
    /\ out.kind = "authz_part2"
    /\ inp.authz = "ToOld"
    /\ inp.check_session_iframe
    /\ inp.authn_event = "valid"
    /\ out.result = "raised"
    /\ out.exception = "KeyError"

\* C16: a pushed request is stored under a request_uri no earlier request
\* got; the first authorization request presenting it gets the stored request
\* and the key is deleted; every later attempt with it fails with ValueError.
C16_OneTimeUse ==
    [][/\ last'.op = "push" =>
            /\ Urn(last'.base) \notin DOMAIN par_db \cup resolved
            /\ Urn(last'.base) \in DOMAIN par_db'
       /\ last'.op = "do_request_uri" =>
            LET u == Urn(last'.base)
            IN /\ u \in DOMAIN par_db =>
                     /\ last'.res = "ok"
                     /\ out'.request = par_db[u]
                     /\ u \notin DOMAIN par_db'
               /\ u \in resolved =>
                     /\ last'.res = "ValueError"
                     /\ out'.kind = "raised"
                     /\ par_db' = par_db
       /\ resolved' \cap DOMAIN par_db' = {}]_vars

C16_Witness ==
    /\ last.op = "do_request_uri"
    /\ last.res = "ValueError"
    /\ Urn(last.base) \in resolved
    /\ DOMAIN par_db # {}

\* C17: once logout_from_client(sid) has returned, and so before any
\* back-channel notification is sent and whatever becomes of it, the client
\* session of sid is revoked, whichever logout URIs the client registered.
C17_LogoutFromClientRevokes ==
    (logout.pc # "idle" /\ ~logout.alla) =>
        client_session[logout.client_id].revoked

C17_Witness ==
    /\ logout.pc = "posting"
    /\ ~logout.alla
    /\ logout.queue = <<logout.client_id>>
    /\ logout.posted = <<>>
    /\ client_session[logout.client_id].revoked

\* C18: after logout_all_clients every client session of the user is
\* revoked, whatever logout channel the client registered.
C18_LogoutAllRevokesAll ==
    (logout.pc # "idle" /\ logout.alla) =>
        \A c \in DOMAIN client_session : client_session[c].revoked

\* C18, the part the code keeps: the client sessions of the clients with a
\* back-channel or a front-channel URI are revoked.
C18_NotifiedAreRevoked ==
    (logout.pc # "idle" /\ logout.alla) =>
        \A c \in DOMAIN client_session :
            inp.cdb[c] # {} => client_session[c].revoked

\* C18: logout_all_clients has returned and the session of a client that
\* registered no logout URI is not revoked.
C18_NoChannelNotRevoked ==
    /\ logout.pc = "done"
    /\ logout.alla
    /\ \E c \in DOMAIN client_session :
          inp.cdb[c] = {} /\ ~client_session[c].revoked
    /\ \E c \in DOMAIN client_session : client_session[c].revoked

\* C19: logout_all_clients puts a client with a backchannel_logout_uri under
\* blu and not under flu, a client with only a frontchannel_logout_uri under
\* flu; with client_1 back-channel and client_2 front-channel the result is
\* blu = {client_1}, flu = {client_2}.
C19_ChannelPartition ==
    (logout.pc # "idle" /\ logout.alla) =>
        /\ \A c \in DOMAIN client_session :
              /\ "backchannel_logout_uri" \in inp.cdb[c] =>
                    c \in logout.blu /\ c \notin logout.flu
              /\ inp.cdb[c] = {"frontchannel_logout_uri"} =>
                    c \in logout.flu /\ c \notin logout.blu
              /\ inp.cdb[c] = {} => c \notin logout.blu \cup logout.flu
        /\ logout.blu \cup logout.flu \subseteq DOMAIN client_session
        /\ (/\ DOMAIN client_session = {"client_1", "client_2"}
            /\ inp.cdb["client_1"] = {"backchannel_logout_uri"}
            /\ inp.cdb["client_2"] = {"frontchannel_logout_uri"})
              => logout.blu = {"client_1"} /\ logout.flu = {"client_2"}

C19_Witness ==
    /\ logout.pc = "done"
    /\ logout.alla
    /\ DOMAIN client_session = {"client_1", "client_2"}
    /\ logout.blu = {"client_1"}
    /\ logout.flu = {"client_2"}
    /\ logout.returned = {"client_2"}
    /\ \A c \in DOMAIN client_session : client_session[c].revoked

\* C20: do_verified_logout attempts every queued back-channel notification:
\* no failed delivery is raised or keeps the later ones from being sent, and
\* the call returns the front-channel iframes.
C20_DeliveryNeverRaises ==
    logout.pc # "raised"

\* C20, the part the code keeps: an answer with a failure status does not
\* stop the loop, and the call that ends returns the iframes after a POST to
\* every queued client.
C20_StatusFailuresContinue ==
    logout.pc = "done" =>
        /\ {p[1] : p \in Range(logout.posted)} = logout.blu
        /\ logout.returned = logout.flu

\* C20: the POST to the first of two queued clients raises and the second is
\* never sent.
C20_UnreachableBlocksOthers ==
    /\ logout.pc = "raised"
    /\ Len(logout.queue) = 2
    /\ Len(logout.posted) = 1
    /\ logout.posted[1][2] = "ConnectionError"

\* The end-session request raised and no confirmation token was made.
NoConfirmation(exceptions) ==
    /\ out.result.kind = "raised"
    /\ out.result.exception \in exceptions
    /\ out.result.payload = NoPayload

\* What verify_uri says about the request's post_logout_redirect_uri, with
\* the client's registered post_logout_redirect_uris in the place of the
\* redirect_uris.
PostLogoutVerdict ==
    verify_uri([c \in DOMAIN inp.registered |-> [redirect_uris |-> inp.registered[c]]],
               IF inp.client_id # "" THEN inp.client_id ELSE EndSessionClient,
               inp.post_logout_redirect_uri)

\* C21: the end-session endpoint uses a post_logout_redirect_uri only when the
\* request also carries an id_token_hint (else InvalidRequest) and the URI
\* passes verify_uri, the validation of the authorization redirect_uri, against
\* the client's registered post_logout_redirect_uris (else the error of that
\* validation); in both failure cases no confirmation token is issued.
C21_PostLogoutUriNeedsHintAndRegistration ==
    (out.kind = "end_session" /\ inp.has_plur) =>
        /\ ~inp.has_hint => NoConfirmation({"InvalidRequest"})
        /\ (inp.has_hint /\ inp.cookie = "ok" /\ inp.hint_verified
              /\ EndSessionClient \in inp.hint_aud /\ inp.hint_sub = EndSessionSub
              /\ PostLogoutVerdict # "ok")
           => NoConfirmation({PostLogoutVerdict})
        /\ out.result.kind = "returned" =>
              /\ inp.has_hint
              /\ PostLogoutVerdict = "ok"
              /\ out.result.payload.redirect_uri = inp.post_logout_redirect_uri

\* C21 witness: a request with id_token_hint whose post_logout_redirect_uri is
\* not registered was refused with RedirectURIError and no token.
C21_Witness ==
    /\ out.kind = "end_session"
    /\ inp.has_plur /\ inp.has_hint
    /\ out.result.kind = "raised"
    /\ out.result.exception = "RedirectURIError"
    /\ out.result.payload = NoPayload

\* C21 witness, second case: without id_token_hint the registered URI is
\* refused with InvalidRequest.
C21_NoHintRefused ==
    /\ out.kind = "end_session"
    /\ inp.has_plur /\ ~inp.has_hint
    /\ PostLogoutVerdict = "ok"
    /\ out.result.exception = "InvalidRequest"


NothingRevoked ==
    /\ \A c \in DOMAIN client_session : ~client_session[c].revoked
    /\ \A p \in DOMAIN db :
          /\ ~db[p].revoked
          /\ \A i \in DOMAIN db[p].issued_token : ~db[p].issued_token[i].revoked

\* C22: Session.process_request ends no session: it returns the redirect with
\* the signed confirmation token holding the session's sid, the resolved
\* redirect target and the state (only when a post_logout_redirect_uri was
\* given); until do_verified_logout is called no client session, Grant or
\* token is revoked.
C22_ProcessRequestOnlyConfirms ==
    /\ logout.pc = "idle" => NothingRevoked
    /\ (out.kind = "end_session" /\ out.result.kind = "returned") =>
          /\ out.result.payload.sid = AuthnSession
          /\ out.result.payload.redirect_uri =
                (IF inp.has_plur THEN inp.post_logout_redirect_uri ELSE PostLogoutUri)
          /\ out.result.payload.has_state = (inp.has_plur /\ inp.has_state)
          /\ out.result.payload.state_in_uri = out.result.payload.has_state
          /\ out.result.payload.state =
                (IF inp.has_plur /\ inp.has_state THEN inp.state ELSE "")

\* C22 witness: a request with state and no post_logout_redirect_uri was
\* answered with a token without state, and no session is revoked yet.
C22_Witness ==
    /\ out.kind = "end_session"
    /\ out.result.kind = "returned"
    /\ inp.has_state /\ ~inp.has_plur
    /\ ~out.result.payload.has_state
    /\ logout.pc = "idle"
    /\ NothingRevoked

\* C22, the other side: after the confirmation step called do_verified_logout
\* the client session is revoked.
C22_ConfirmationRevokes ==
    logout.pc # "idle" => client_session[EndSessionClient].revoked

C22_ConfirmedLogout ==
    /\ logout.pc = "done"
    /\ client_session[EndSessionClient].revoked

HasKey(claimspec, key) == \E i \in DOMAIN claimspec.items : claimspec.items[i].key = key

ItemOf(claimspec, key) ==
    claimspec.items[CHOOSE i \in DOMAIN claimspec.items : claimspec.items[i].key = key]

\* C23: claims_match(value, spec) is FALSE when value is null, whatever the
\* spec; otherwise TRUE when spec is null; otherwise TRUE exactly when spec has
\* "value" and value equals it, or spec has "values" and value is among them,
\* or the only key of spec is "essential".
C23_ClaimsMatchReference ==
    out.kind = "claims_match" =>
        out.result =
            (IF inp.value = Null THEN FALSE
             ELSE IF inp.claimspec.is_none THEN TRUE
             ELSE \/ /\ HasKey(inp.claimspec, "value")
                     /\ inp.value = ItemOf(inp.claimspec, "value").val
                  \/ /\ HasKey(inp.claimspec, "values")
                     /\ inp.value \in ItemOf(inp.claimspec, "values").vals
                  \/ {inp.claimspec.items[i].key : i \in DOMAIN inp.claimspec.items}
                        = {"essential"})

\* C23 witness: "red" against {"essential": True, "values": ["blue", "green"]}
\* is no match.
C23_Witness ==
    /\ out.kind = "claims_match"
    /\ inp.value = "red"
    /\ inp.claimspec = DictSpec(<<Item("essential", "", {}, TRUE),
                                  Item("values", "", {"blue", "green"}, FALSE)>>)
    /\ out.result = FALSE

\* C23, the examples: ("red", {value: "red"}) matches, ("red", {values:
\* ["blue", "green"]}) does not, ("red", {essential: True}) matches, and
\* nothing matches null.
C23_Examples ==
    out.kind = "claims_match" =>
        /\ (inp.value = "red" /\ inp.claimspec = DictSpec(<<Item("value", "red", {}, FALSE)>>))
              => out.result
        /\ (inp.value = "red"
              /\ inp.claimspec = DictSpec(<<Item("values", "", {"blue", "green"}, FALSE)>>))
              => ~out.result
        /\ (inp.value = "red" /\ inp.claimspec = DictSpec(<<Item("essential", "", {}, TRUE)>>))
              => out.result
        /\ inp.value = Null => ~out.result

\* The sources of get_claims that are enabled for the configuration `c`.
BaseSource(c) == IF c.module THEN c.base_claims ELSE NoClaims

ClientSource(c) ==
    IF c.module /\ c.enable_claims_per_client THEN c.client_claims ELSE NoClaims

ScopeSource(c) == IF c.module /\ c.add_claims_by_scope THEN c.scope_claims ELSE NoClaims

\* The matching-spec of `name` in the last of the sources that has it.
LastOf(sources, name) ==
    sources[CHOOSE i \in DOMAIN sources :
               /\ name \in DOMAIN sources[i]
               /\ \A j \in DOMAIN sources : j > i => name \notin DOMAIN sources[j]][name]

AllNames(sources) == UNION {DOMAIN sources[i] : i \in DOMAIN sources}

\* C24: get_claims merges base_claims, then the per-client claims, then the
\* scope-derived claims, then the claims of the authorization request: a claim
\* name has the matching-spec of the highest of these sources that holds it,
\* and every name of an enabled source is in the result.
C24_MergePrecedence ==
    out.kind = "get_claims" =>
        LET sources == <<BaseSource(inp), ClientSource(inp), ScopeSource(inp),
                         inp.request_claims>>
        IN /\ DOMAIN out.claims = AllNames(sources)
           /\ \A name \in DOMAIN out.claims : out.claims[name] = LastOf(sources, name)

\* C24, what get_claims does: the per-client claims come first and
\* base_claims overwrite them; scope-derived and request claims follow, and
\* no name is removed.
C24_BaseOverClient ==
    out.kind = "get_claims" =>
        LET sources == <<ClientSource(inp), BaseSource(inp), ScopeSource(inp),
                         inp.request_claims>>
        IN /\ DOMAIN out.claims = AllNames(sources)
           /\ \A name \in DOMAIN out.claims : out.claims[name] = LastOf(sources, name)

\* C24 witness: base_claims {"email": {"essential": True}}, the client
\* registered {"email": {"value": ...}}, per-client claims enabled: the result
\* holds the matching-spec of base_claims.
C24_BaseSpecWins ==
    /\ out.kind = "get_claims"
    /\ inp.module /\ inp.enable_claims_per_client /\ ~inp.add_claims_by_scope
    /\ inp.base_claims = [k \in {"email"} |-> "essential"]
    /\ inp.client_claims = [k \in {"email"} |-> "value"]
    /\ inp.request_claims = NoClaims
    /\ out.claims = [k \in {"email"} |-> "essential"]

\* C25: with response_mode form_post the response has content_type text/html
\* and response_placement body, and its body is the form submitted on load to
\* the return URI, with exactly one hidden input element for every response
\* field, named by the field and holding the field's value.
C25_FormPostCarriesFields ==
    out.kind = "form_post" =>
        /\ out.content_type = "text/html"
        /\ out.response_placement = "body"
        /\ form_action(out.response_msg) = inp.return_uri
        /\ hidden_inputs(out.response_msg) = inp.response_args

\* C25, what holds: content type, placement and action are as said, there is
\* one input element for every field, in the order of the fields and named by
\* them, and a value without quotation mark is the value of its element.
C25_OneInputPerField ==
    out.kind = "form_post" =>
        /\ out.content_type = "text/html"
        /\ out.response_placement = "body"
        /\ form_action(out.response_msg) = inp.return_uri
        /\ Len(hidden_inputs(out.response_msg)) = Len(inp.response_args)
        /\ \A i \in DOMAIN inp.response_args :
              /\ hidden_inputs(out.response_msg)[i].name = inp.response_args[i].name
              /\ (\A k \in DOMAIN inp.response_args[i].value :
                     inp.response_args[i].value[k] # Quote)
                 => hidden_inputs(out.response_msg)[i].value = inp.response_args[i].value

\* C25 witness: the state a"a is written as value="a"a"; the element's value
\* is a.
C25_QuoteCutsValue ==
    /\ out.kind = "form_post"
    /\ inp.response_args = <<Field(<<"s", "t", "a", "t", "e">>, <<"a", Quote>>)>>
    /\ hidden_inputs(out.response_msg) = <<Field(<<"s", "t", "a", "t", "e">>, <<"a">>)>>

\* C26: a token value round-trips through the codec: for every session id and
\* type tag given to the encoder, decoding the unexpired value gives that sid
\* and that type; a value that does not verify is reported as UnknownToken and
\* an expired one as ToOld.
C26_CodecRoundTrip ==
    out.kind = "info" =>
        /\ out.value.key # "op" => out.result.err = "UnknownToken"
        /\ (out.value.key = "op" /\ now > out.value.exp) => out.result.err = "ToOld"
        /\ (out.value.key = "op" /\ now <= out.value.exp) =>
              /\ out.result.err = ""
              /\ out.result.sid = inp.session_id
              /\ inp.ttype # "" => out.result.type = inp.ttype

\* C26, what holds: the sid round-trips, the errors are as said, and the type
\* is the handler's own type when no type tag is given, "A" in every other
\* case.
C26_SidRoundTrip ==
    out.kind = "info" =>
        /\ out.value.key # "op" => out.result.err = "UnknownToken"
        /\ (out.value.key = "op" /\ now > out.value.exp) => out.result.err = "ToOld"
        /\ (out.value.key = "op" /\ now <= out.value.exp) =>
              /\ out.result.err = ""
              /\ out.result.sid = inp.session_id
              /\ out.result.type =
                    (IF inp.ttype = "" /\ inp.self_type # "" THEN inp.self_type ELSE "A")

\* C26 witness: the handler of type "T" called with ttype "T" gives a value
\* that decodes to type "A".
C26_GivenTypeBecomesA ==
    /\ out.kind = "info"
    /\ inp.self_type = "T" /\ inp.ttype = "T"
    /\ out.result.err = ""
    /\ out.result.sid = inp.session_id
    /\ out.result.type = "A"

\* C27: in every reachable state a Token is active exactly when it is not
\* revoked, not expired and, with max_usage set, used less than max_usage
\* times; a token revoked with revoke_token is refused when it is presented
\* next.
C27_ActiveIffUsable ==
    /\ \A p \in DOMAIN db : \A i \in DOMAIN db[p].issued_token :
          LET t == db[p].issued_token[i]
          IN is_active(t) <=>
                /\ ~t.revoked
                /\ ~(t.expires_at # 0 /\ now > t.expires_at)
                /\ (t.max_usage = 0 \/ t.used < t.max_usage)
    /\ (last.op = "token_request" /\ last.base # 0
          /\ TokenAt(last.sid, last.base).revoked)
       => last.res = "error"

\* C27 witness: a code that was neither used nor expired, but revoked, was
\* presented at the token endpoint and refused.
C27_Witness ==
    /\ last.op = "token_request"
    /\ last.base # 0
    /\ TokenAt(last.sid, last.base).revoked
    /\ TokenAt(last.sid, last.base).used = 0
    /\ ~is_expired(TokenAt(last.sid, last.base), now)
    /\ last.res = "error"

\* Every token of the store with the Grant that holds it and its position.
AllTokens ==
    UNION {{<<p, i>> : i \in DOMAIN db[p].issued_token} : p \in DOMAIN db}

\* The token x was created before the token y: its value was made earlier,
\* and in the list of one Grant it stands before y.
CreatedBefore(x, y) ==
    /\ db[x[1]].issued_token[x[2]].value.rnd < db[y[1]].issued_token[y[2]].value.rnd
    /\ x[1] = y[1] => x[2] < y[2]

\* C28: after any sequence of mint operations the based_on relation has no
\* cycle: a token's based_on, when set, is a token created before it (of the
\* same Grant or of another), and every token is in the list of exactly one
\* Grant.
C28_BasedOnEarlier ==
    /\ \A y \in AllTokens :
          db[y[1]].issued_token[y[2]].based_on # NoValue =>
              \E x \in AllTokens :
                  /\ db[x[1]].issued_token[x[2]].value = db[y[1]].issued_token[y[2]].based_on
                  /\ CreatedBefore(x, y)
    /\ \A x, y \in AllTokens :
          db[x[1]].issued_token[x[2]].value = db[y[1]].issued_token[y[2]].value => x = y

\* C28 witness: in one Grant the second token is based on the first, and a
\* token of another Grant is based on that first token too.
C28_Witness ==
    \E p, q \in DOMAIN db :
        /\ p # q
        /\ Len(db[p].issued_token) >= 2
        /\ db[p].issued_token[2].based_on = db[p].issued_token[1].value
        /\ \E j \in DOMAIN db[q].issued_token :
              db[q].issued_token[j].based_on = db[p].issued_token[1].value

\* C28, a longer chain: the third token based on the second, the second on
\* the first.
C28_ChainOfThree ==
    \E p \in DOMAIN db :
        /\ Len(db[p].issued_token) >= 3
        /\ db[p].issued_token[2].based_on = db[p].issued_token[1].value
        /\ db[p].issued_token[3].based_on = db[p].issued_token[2].value

\* C29: get_uri for a request without redirect_uri returns the only URI the
\* client registered, its base joined with its registered query, and fails
\* with ParameterError when the client registered none or more than one; with
\* a redirect_uri in the request it returns that value, and only when
\* verify_uri accepted it.
C29_GetUriResolves ==
    (out.kind = "get_uri" /\ inp.client_id = "client_1") =>
        IF inp.has_redirect_uri
        THEN LET v == verify_uri(cdb_of(inp.registered), inp.client_id, inp.redirect_uri)
             IN /\ v = "ok" => (out.err = "" /\ out.uri = inp.redirect_uri)
                /\ v # "ok" => (out.err = v /\ out.uri = NoUri)
        ELSE /\ Len(inp.registered) = 1 =>
                   /\ out.err = ""
                   /\ out.uri = Uri(inp.registered[1].base, inp.registered[1].query, "")
             /\ Len(inp.registered) # 1 =>
                   (out.err = "ParameterError" /\ out.uri = NoUri)

\* C29 witness: no redirect_uri in the request, the client registered
\* https://cb?foo=1 only, and that is what get_uri returned.
C29_Witness ==
    /\ out.kind = "get_uri"
    /\ inp.client_id = "client_1"
    /\ ~inp.has_redirect_uri
    /\ inp.registered = <<[base |-> "https://cb", query |-> FooIs1]>>
    /\ out.err = ""
    /\ out.uri = Uri("https://cb", FooIs1, "")

\* C29, the failures: two registered URIs and no redirect_uri in the request.
C29_Ambiguous ==
    /\ out.kind = "get_uri"
    /\ inp.client_id = "client_1"
    /\ ~inp.has_redirect_uri
    /\ Len(inp.registered) = 2
    /\ out.err = "ParameterError"

\* C30: when no authentication method matches the request, the authorization
\* flow ends with the error response access_denied; it neither raises nor
\* goes on to the authentication.
C30_NoMethodAccessDenied ==
    (out.kind = "setup" /\ ~inp.method_found) =>
        /\ out.result.kind = "error"
        /\ out.result.error = "access_denied"

\* C30, what holds: without a method setup_auth is left by a KeyError,
\* whatever the rest of the request is; no session is set up and nothing is
\* handed to an authentication method.
C30_NoMethodAlwaysRaises ==
    (out.kind = "setup" /\ ~inp.method_found) =>
        out.result = SetupResult("raised", "KeyError", "", "", "")

\* C30 witness: no method was found for a request of a user with a valid
\* session, and setup_auth raised KeyError.
C30_NoMethodRaises ==
    /\ out.kind = "setup"
    /\ ~inp.method_found
    /\ inp.authenticated_as = "identity"
    /\ inp.grant_state = "active"
    /\ out.result.kind = "raised"
    /\ out.result.error = "KeyError"

\* The cases of C31 for the request of client_1 and the cookie of diana: a
\* req_user that is somebody else, a cookie session of another client, a
\* Grant that is not active, a cookie the method turns down as too old (what
\* max_age = 0 of upm_answer=true leads to).
ForcesReauthentication(a) ==
    \/ a.authenticated_as = "identity" /\ a.req_user \notin {"", "diana"}
    \/ a.authenticated_as = "identity" /\ a.has_sid /\ a.sid_client # "client_1"
    \/ a.authenticated_as = "identity" /\ a.has_sid /\ a.grant_state = "inactive"
    \/ a.authenticated_as = "ToOld"

\* C31: with an authentication method picked, setup_auth on a request for
\* another user than the cookie's, on a cookie session of another client, on
\* an inactive Grant or on a cookie rejected as too old returns the handoff
\* or login_required: no session_id and no new grant or session.
C31_ReauthenticationForced ==
    (out.kind = "setup" /\ inp.method_found /\ ForcesReauthentication(inp))
        => /\ out.result \in {Handoff, LoginRequired}
           /\ out.result.session = ""
           /\ out.session_id = <<>>
           /\ DOMAIN db = out.before

C31_Witness ==
    /\ out.kind = "setup"
    /\ inp.method_found
    /\ inp.authenticated_as = "identity"
    /\ ~inp.uid_b64
    /\ inp.has_sid
    /\ inp.sid_client = "client_2"
    /\ inp.grant_state = "active"
    /\ inp.same_request
    /\ inp.event_valid
    /\ inp.req_user = ""
    /\ out.result = Handoff
    /\ DOMAIN db = {CookiePath(inp)}

\* The cookie identity is accepted: a method was picked, authenticated_as
\* gave an identity that lines 505-518 keep, and req_user, if given, is the
\* cookie's user.
IdentityAccepted(a) ==
    /\ a.method_found
    /\ ~identity_is_none(a)
    /\ a.req_user \in {"", "diana"}

\* The cookie names a session of the request's client with an active Grant.
ActiveGrantOfClient(a) ==
    /\ a.has_sid
    /\ a.sid_client = "client_1"
    /\ a.grant_state = "active"

\* C32: for an accepted identity setup_auth returns the session of the cookie
\* and creates nothing when the Grant is active, the request is the Grant's
\* authorization request and the AuthenticationEvent is valid; it creates a
\* Grant on the same AuthenticationEvent when the request differs and the
\* event is valid; it creates a session with a new AuthenticationEvent when
\* the identity names no session.
C32_ReuseOrCreate ==
    (out.kind = "setup" /\ IdentityAccepted(inp))
        => /\ (ActiveGrantOfClient(inp) /\ inp.same_request /\ inp.event_valid)
                => /\ out.result = SetupResult("session", "", "reused", "client_1", "existing")
                   /\ PathOf(out.session_id) = CookiePath(inp)
                   /\ DOMAIN db = out.before
           /\ (ActiveGrantOfClient(inp) /\ ~inp.same_request /\ inp.event_valid)
                => /\ out.result = SetupResult("session", "", "create_grant", "client_1", "existing")
                   /\ PathOf(out.session_id) \notin out.before
                   /\ DOMAIN db = out.before \cup {PathOf(out.session_id)}
           /\ ~inp.has_sid
                => /\ out.result = SetupResult("session", "", "create_session", "client_1", "new")
                   /\ out.before = {}
                   /\ DOMAIN db = {PathOf(out.session_id)}
                   /\ "client_1" \in DOMAIN client_session

C32_Witness ==
    /\ out.kind = "setup"
    /\ IdentityAccepted(inp)
    /\ ActiveGrantOfClient(inp)
    /\ inp.uid_b64
    /\ inp.same_request
    /\ inp.event_valid
    /\ out.result.session = "reused"
    /\ DOMAIN db = {PathOf(out.session_id)}

\* The other two branches of C32 are taken as well.
C32_NewGrantSameEvent ==
    /\ out.kind = "setup"
    /\ IdentityAccepted(inp)
    /\ ActiveGrantOfClient(inp)
    /\ ~inp.same_request
    /\ out.result.session = "create_grant"
    /\ out.result.authn_event = "existing"
    /\ Cardinality(DOMAIN db) = 2

\* The request asks for a response type create_authn_response does not make.
NotHandled(request) ==
    /\ request.response_type # {"none"}
    /\ request.response_type \ Handled # {}

\* The response has none of the fields code, access_token and id_token.
CarriesNothing(args) ==
    /\ args.code = NoValue
    /\ args.access_token = NoValue
    /\ args.id_token = NoIdToken

\* C33: a response type with a component other than code, token and id_token
\* gives the error response invalid_request / unsupported_response_type,
\* without code, access_token and id_token.
C33_UnhandledResponseType ==
    (out.kind = "authn_response" /\ inp.response_type \ Handled # {})
        => /\ out.exception = ""
           /\ out.response_args.error = "invalid_request"
           /\ out.response_args.error_description = "unsupported_response_type"
           /\ CarriesNothing(out.response_args)

\* C33, what tells against it: the response type none alone is answered
\* with a response that is no error.
C33_NoneIsServed ==
    /\ out.kind = "authn_response"
    /\ inp.response_type = {"none"}
    /\ out.exception = ""
    /\ out.response_args.error = ""

\* C33, the other case: the ID Token of "id_token foo" could not be signed,
\* and the error is described by that.
C33_SigningFailureFirst ==
    /\ out.kind = "authn_response"
    /\ inp.response_type = {"id_token", "foo"}
    /\ out.response_args.error = "invalid_request"
    /\ out.response_args.error_description = "Could not sign/encrypt id_token"

\* C33 as amended: for a response type with a component other than code,
\* token and id_token, that is not none alone, the response
\* create_authn_response returns is the error response invalid_request,
\* without code, access_token and id_token; its description is
\* unsupported_response_type, unless an ID Token was asked for and could not
\* be signed or encrypted, which the description then says.
C33_UnhandledButNone ==
    (out.kind = "authn_response" /\ out.exception = ""
        /\ inp.response_type \ Handled # {} /\ inp.response_type # {"none"})
        => /\ out.response_args.error = "invalid_request"
           /\ out.response_args.error_description =
                 (IF "id_token" \in inp.response_type /\ inp.idt # "ok"
                  THEN "Could not sign/encrypt id_token"
                  ELSE "unsupported_response_type")
           /\ CarriesNothing(out.response_args)

\* C33 witness: "code foo" minted the code and gave the error response.
C33_Witness ==
    /\ out.kind = "authn_response"
    /\ out.exception = ""
    /\ inp.response_type = {"code", "foo"}
    /\ Len(db[AuthnPath].issued_token) = out.before + 1
    /\ out.response_args.error = "invalid_request"
    /\ out.response_args.error_description = "unsupported_response_type"
    /\ CarriesNothing(out.response_args)

\* C33: "code none" is not none alone, and gets the error response.
C33_CodeNone ==
    /\ out.kind = "authn_response"
    /\ inp.response_type = {"code", "none"}
    /\ out.response_args.error_description = "unsupported_response_type"

\* C33: a code whose usage rule lets it mint nothing: the access token of
\* "code token" is refused and no response is returned.
C33_MintingRefused ==
    /\ out.kind = "authn_response"
    /\ inp.response_type = {"code", "token"}
    /\ out.exception = "MintingNotAllowed"

\* post_authentication reaches the response mode: the authorization and the
\* session update succeed, the redirect URI and the state are there and the
\* session state can be computed.
ReachesResponseMode(request) ==
    /\ request.authz = "ok"
    /\ request.set_ok
    /\ get_uri(cdb_of(request.registered), request).err = ""
    /\ request.has_state
    /\ request.check_session_iframe => request.authn_event = "valid"

\* The encoding the response type mandates.
MandatesQuery(request) == request.response_type \in {{"code"}, {"none"}}

\* The response mode asked for cannot be used for the response type.
WrongResponseMode(request) ==
    \/ request.response_mode = "fragment" /\ MandatesQuery(request)
    \/ request.response_mode = "query" /\ ~MandatesQuery(request)
    \/ request.response_mode \notin {"", "query", "fragment", "form_post"}

\* create_authn_response has all it needs for a response without error.
ResponseMakeable(request) ==
    /\ request.response_type = {"none"} \/ request.response_type \subseteq Handled
    /\ "id_token" \in request.response_type => request.idt = "ok"

\* C34: fragment_enc is False for the response types code and none and True
\* for the others; response_mode=fragment where the query is mandated,
\* response_mode=query where the fragment is, and an unknown response_mode
\* give the invalid_request error response, and any other response mode
\* a response without error.
C34_ResponseModeFollowsType ==
    (out.kind = "authz_part2" /\ out.result = "returned" /\ ReachesResponseMode(inp))
        => /\ out.info.fragment_enc = IF MandatesQuery(inp) THEN "False" ELSE "True"
           /\ WrongResponseMode(inp)
                => /\ out.info.response_args.error = "invalid_request"
                   /\ out.info.response_args.code = NoValue
                   /\ out.info.response_args.access_token = NoValue
           /\ (~WrongResponseMode(inp) /\ ResponseMakeable(inp))
                => out.info.response_args.error = ""

C34_Witness ==
    /\ out.kind = "authz_part2"
    /\ out.result = "returned"
    /\ ReachesResponseMode(inp)
    /\ inp.response_type = {"code"}
    /\ inp.response_mode = "fragment"
    /\ out.info.response_args.error = "invalid_request"
    /\ out.info.fragment_enc = "False"

\* The other two refusals of C34 and an accepted explicit mode.
C34_QueryForFragment ==
    /\ out.kind = "authz_part2"
    /\ ReachesResponseMode(inp)
    /\ inp.response_type = {"code", "token"}
    /\ inp.response_mode = "query"
    /\ out.info.response_args.error = "invalid_request"

C34_FragmentForFragment ==
    /\ out.kind = "authz_part2"
    /\ ReachesResponseMode(inp)
    /\ inp.response_type = {"id_token", "token"}
    /\ inp.idt = "ok"
    /\ inp.response_mode = "fragment"
    /\ out.info.response_args.error = ""
    /\ out.info.fragment_enc = "True"

\* The ID Token of the hint was issued to the client of the cookie's session
\* for the sub of its client session.
HintMatchesSession(request) ==
    /\ request.hint_verified
    /\ EndSessionClient \in request.hint_aud
    /\ request.hint_sub = EndSessionSub

\* C35: an end-session request with an id_token_hint gets the confirmation
\* token only if the hint's aud holds the client_id of the cookie's session
\* and its sub is that client session's sub; with any other hint, without a
\* cookie value and with a cookie that names no session the request is left
\* by an exception and no payload is made.
C35_HintMustMatchSession ==
    out.kind = "end_session"
        => /\ (inp.has_hint /\ out.result.kind = "returned") => HintMatchesSession(inp)
           /\ (inp.has_hint /\ ~HintMatchesSession(inp))
                => /\ out.result.kind = "raised"
                   /\ out.result.payload = NoPayload
           /\ inp.cookie \in {"KeyError", "unknown"}
                => /\ out.result.kind = "raised"
                   /\ out.result.exception \in {"ValueError", "InvalidRequest"}
                   /\ out.result.payload = NoPayload

C35_Witness ==
    /\ out.kind = "end_session"
    /\ inp.cookie = "ok"
    /\ inp.has_hint
    /\ inp.hint_verified
    /\ inp.hint_aud = {"client_1"}
    /\ inp.hint_sub = "sub_2"
    /\ out.result = EndSessionResult("raised", "ValueError", NoPayload)

\* A matching hint does get the confirmation token.
C35_MatchingHintConfirmed ==
    /\ out.kind = "end_session"
    /\ inp.has_hint
    /\ HintMatchesSession(inp)
    /\ out.result.kind = "returned"
    /\ out.result.payload.sid = AuthnSession

\* The names a get_claims call may take from its own sources: the client's
\* claims as registered before any call, base_claims, and the scope-derived
\* and request claims of the call itself.
OwnSources(c, sc, rc) ==
    (IF c.module /\ c.enable_claims_per_client THEN DOMAIN c.client_claims ELSE {})
        \cup (IF c.module THEN DOMAIN c.base_claims ELSE {})
        \cup (IF c.module /\ c.add_claims_by_scope THEN DOMAIN sc ELSE {})
        \cup DOMAIN rc

\* C36: get_claims leaves the client's registered claims as they were, a
\* second call with the same scopes and request claims returns what the
\* first returned, and the result of a later call for another session holds
\* no claim that none of its own sources names.
C36_GetClaimsHasNoSideEffect ==
    /\ out.kind = "get_claims" => out.registered = inp.client_claims
    /\ out.kind = "get_claims_again"
         => /\ out.registered = inp.client_claims
            /\ (out.scope_claims = inp.scope_claims
                    /\ out.request_claims = inp.request_claims)
                 => out.claims = out.first
            /\ DOMAIN out.claims
                 \subseteq OwnSources(inp, out.scope_claims, out.request_claims)

\* The request claims of the first session ask for email; the second session
\* of the same client has none of its own sources naming email and gets it.
C36_ClaimLeaksToOtherSession ==
    /\ out.kind = "get_claims_again"
    /\ inp.module
    /\ inp.enable_claims_per_client
    /\ inp.client_claims_registered
    /\ ~inp.client_claims_is_list
    /\ "email" \in DOMAIN inp.request_claims
    /\ "email" \notin OwnSources(inp, out.scope_claims, out.request_claims)
    /\ "email" \in DOMAIN out.claims
    /\ "email" \in DOMAIN out.registered

\* What does hold: the same scopes and request claims give the same result
\* again, and without per-client claims or with the client's claims kept as
\* a list nothing of an earlier call is left.
C36_RepeatableAndCleanWithoutDict ==
    out.kind = "get_claims_again"
        => /\ (out.scope_claims = inp.scope_claims
                    /\ out.request_claims = inp.request_claims)
                 => out.claims = out.first
           /\ (\/ ~(inp.module /\ inp.enable_claims_per_client)
               \/ inp.client_claims_is_list
               \/ ~inp.client_claims_registered)
                 => /\ out.registered = inp.client_claims
                    /\ DOMAIN out.claims
                         \subseteq OwnSources(inp, out.scope_claims, out.request_claims)


\* One get_claims_all_usage call with per-client claims leaves the request
\* claims of the session in the client's registered userinfo claims.
C36_AllUsageChangesRegistry ==
    /\ out.kind = "get_claims_all_usage"
    /\ inp.enable_claims_per_client
    /\ inp.registered["userinfo"] = NoClaims
    /\ inp.base_claims["userinfo"] = NoClaims
    /\ inp.request["userinfo"] = [k \in {"name"} |-> "essential"]
    /\ out.registered["userinfo"] = [k \in {"name"} |-> "essential"]

\* A client that registered no claims for the usage gets a new dictionary in
\* every call: nothing is kept in cdb and nothing is carried over.
C36_NoRegisteredClaimsNothingKept ==
    (out.kind \in {"get_claims", "get_claims_again", "userinfo_get_claims"}
        /\ ~inp.client_claims_registered)
        => out.registered = NoClaims

\* userinfo.ClaimsInterface.get_claims for a request whose claims parameter
\* has no entry for the usage ends in TypeError with the scope-derived claims
\* already written to the client's registered claims.
C36_UserinfoTypeErrorAfterScopeClaims ==
    /\ out.kind = "userinfo_get_claims"
    /\ inp.request_claims_is_none
    /\ out.err = "TypeError"
    /\ inp.client_claims = [k \in {"name"} |-> "None"]
    /\ out.registered = [k \in {"name", "email"} |-> "None"]

\* Both requests are done and presented the same request_uri.
SameUriDone(v, w) ==
    /\ v # w
    /\ pc[v] = "done"
    /\ pc[w] = "done"
    /\ held[v].uri = held[w].uri

\* C37: of two concurrent authorization requests presenting the same pushed
\* request_uri at most one resolves the stored request, and the other one
\* fails with the resolution error (ValueError).
C37_OneResolvesOtherCannotResolve ==
    \A v, w \in DOMAIN pc :
        (SameUriDone(v, w) /\ held[v].result = "resolved")
            => held[w].result = "ValueError"

\* Both requests looked the urn up before either deleted it: the second
\* del raises KeyError.
C37_LoserRaisesKeyError ==
    \E v, w \in DOMAIN pc :
        /\ SameUriDone(v, w)
        /\ held[v].result = "resolved"
        /\ held[w].result = "KeyError"
        /\ held[w].req = held[v].req
        /\ held[v].uri \notin DOMAIN par_db

\* What does hold: a stored request is never resolved by both requests.
C37_AtMostOneResolves ==
    \A v, w \in DOMAIN pc :
        SameUriDone(v, w) => ~(held[v].result = "resolved" /\ held[w].result = "resolved")

\* create_authn_response is reached and returns an error response: a
\* response type it does not make, or an ID Token that cannot be signed.
AuthnResponseFails(request) ==
    /\ request.authz = "ok"
    /\ request.set_ok
    /\ \/ NotHandled(request)
       \/ /\ "id_token" \in request.response_type
          /\ request.idt # "ok"

\* C38: when create_authn_response returns an error response, the Grant
\* that is stored holds the tokens it held before the call and no more.
C38_FailedResponseLeavesNoToken ==
    (out.kind = "authz_part2" /\ AuthnResponseFails(inp))
        => Len(db[AuthnPath].issued_token) = out.before

\* response_type "code foo": the response is the error and carries no code,
\* the Grant has one more token, an authorization code that is active.
C38_CodeStaysAfterError ==
    /\ out.kind = "authz_part2"
    /\ out.result = "returned"
    /\ inp.response_type = {"code", "foo"}
    /\ AuthnResponseFails(inp)
    /\ out.info.response_args.error # ""
    /\ out.info.response_args.code = NoValue
    /\ Len(db[AuthnPath].issued_token) = out.before + 1
    /\ db[AuthnPath].issued_token[out.before + 1].type = "authorization_code"
    /\ is_active(db[AuthnPath].issued_token[out.before + 1])

\* The same for a code and an access token minted before the ID Token could
\* not be signed.
C38_TokensStayAfterSigningError ==
    /\ out.kind = "authz_part2"
    /\ inp.response_type = {"code", "id_token", "token"}
    /\ AuthnResponseFails(inp)
    /\ out.info.response_args.error # ""
    /\ Len(db[AuthnPath].issued_token) = out.before + 2

\* What does hold: a failed call that minted nothing before the error
\* (no code and no token among the response types) leaves the Grant as it was.
C38_NothingMintedNothingLeft ==
    (out.kind = "authz_part2" /\ AuthnResponseFails(inp)
        /\ inp.response_type \cap {"code", "token"} = {})
        => Len(db[AuthnPath].issued_token) = out.before

\* The registered entry has the request URI's base, and each of the two
\* queries holds what the other holds.
EntryMatches(entry, uri) ==
    /\ entry.base = uri.base
    /\ Included(entry.query, uri.query)
    /\ Included(uri.query, entry.query)

\* C39: for a client with registered URIs verify_uri accepts a request URI
\* without fragment if and only if some registered entry matches it; an
\* earlier entry with the same base and another query does not make a URI
\* rejected that a later entry matches.
C39_AcceptsIffSomeEntryMatches ==
    (out.kind = "verified" /\ inp.client_id = "client_1" /\ inp.uri.fragment = ""
        /\ inp.registered # <<>>)
        => (out.result = "ok"
                <=> \E i \in DOMAIN inp.registered :
                        EntryMatches(inp.registered[i], inp.uri))

\* https://cb?foo=1 and https://cb are registered in this order; the request
\* URI https://cb matches the second entry and is rejected by the first.
C39_EarlierEntryRejects ==
    /\ out.kind = "verified"
    /\ inp.client_id = "client_1"
    /\ inp.registered = <<[base |-> "https://cb", query |-> FooIs1],
                          [base |-> "https://cb", query |-> NoQuery]>>
    /\ inp.uri = Uri("https://cb", NoQuery, "")
    /\ EntryMatches(inp.registered[2], inp.uri)
    /\ out.result = "ValueError"

\* What does hold: the first registered entry with the request URI's base
\* decides, and entries of other bases never cause a rejection.
C39_FirstSameBaseEntryDecides ==
    (out.kind = "verified" /\ inp.client_id = "client_1" /\ inp.uri.fragment = ""
        /\ inp.registered # <<>>)
        => LET same == {i \in DOMAIN inp.registered :
                            inp.registered[i].base = inp.uri.base}
           IN IF same = {} THEN out.result = "RedirectURIError"
              ELSE LET first == CHOOSE i \in same : \A j \in same : i <= j
                   IN out.result = IF EntryMatches(inp.registered[first], inp.uri)
                                   THEN "ok" ELSE "ValueError"

\* The three outcomes of setup_auth: the error dictionary, the handoff to the
\* authentication method, the session.
SetupOutcomes == {"error", "function", "session"}

\* The session returned is one of the request's client (client_1), and its
\* AuthenticationEvent is the one just made or the existing one found valid.
SessionOfValidAuthentication(a, result) ==
    /\ result.client_id = "client_1"
    /\ PathOf(out.session_id) \in DOMAIN db
    /\ PathOf(out.session_id)[2] = <<"client_1">>
    /\ ~db[PathOf(out.session_id)].revoked
    /\ result.session \in {"reused", "create_grant", "create_session"}
    /\ result.authn_event \in {"existing", "new"}
    /\ result.authn_event = "existing" => a.event_valid
    /\ result.authn_event = "new" <=> result.session = "create_session"

\* C40: every setup_auth call ends as an error dictionary, a handoff or a
\* session, and a session it returns is of the request's client and has a
\* valid AuthenticationEvent.
C40_ThreeOutcomesValidSession ==
    out.kind = "setup"
        => /\ out.result.kind \in SetupOutcomes
           /\ out.result.kind = "session"
                => SessionOfValidAuthentication(inp, out.result)

\* No authentication method was picked, the cookie is the one of a running
\* session: setup_auth is left by the KeyError and returns none of the three.
C40_EndsInException ==
    /\ out.kind = "setup"
    /\ ~inp.method_found
    /\ inp.authenticated_as = "identity"
    /\ inp.grant_state = "active"
    /\ inp.event_valid
    /\ out.result.kind = "raised"
    /\ out.result.kind \notin SetupOutcomes
    /\ DOMAIN db = out.before

\* What does hold: a call that returns does so with one of the three
\* outcomes, and a session is of the request's client with a valid
\* AuthenticationEvent.
C40_ReturnedOutcomes ==
    (out.kind = "setup" /\ out.result.kind # "raised")
        => /\ out.result.kind \in SetupOutcomes
           /\ out.result.kind = "session"
                => SessionOfValidAuthentication(inp, out.result)
           /\ out.result.kind # "session"
                => /\ out.result.session = "" /\ out.result.client_id = ""
                   /\ out.session_id = <<>>
                   /\ DOMAIN db = out.before

\* A session is returned for a changed request on a valid AuthenticationEvent.
C40_SessionReturned ==
    /\ out.kind = "setup"
    /\ out.result.kind = "session"
    /\ out.result.session = "create_grant"
    /\ inp.event_valid
    /\ SessionOfValidAuthentication(inp, out.result)

====
